---- MODULE Spec2Model ----
(***************************************************************************)
(* Model of python-webfinger: the JRD object model                         *)
(* (webfinger/objects/jrd.py, webfinger/objects/link.py,                   *)
(* webfinger/objects/__init__.py, webfinger/utils.py) and the clients      *)
(* (webfinger/client/__init__.py, requests.py, aiohttp.py).                *)
(*                                                                         *)
(* Python strings are sequences of atoms: the characters the code looks    *)
(* at (":" and "@") are atoms of their own, every maximal run of other     *)
(* characters is one atom.  "acct:user@host" is                            *)
(* <<"acct", ":", "user", "@", "host">>.                                   *)
(*                                                                         *)
(* Python values are tagged records (PyStr, PyInt, PyNone, PyList,         *)
(* PyDict).  The containers the code shares by reference and mutates in    *)
(* place (the raw jrd dict and its top-level lists and dicts, and the      *)
(* document's aliases and properties attributes) live on a heap and are    *)
(* named by PyRef(address); two names for one address see each other's     *)
(* mutations, as in Python.                                                *)
(***************************************************************************)
EXTENDS Integers, Sequences, FiniteSets, TLC

VARIABLES heap, docs, result, ncalls, clients, defaults, inflight

vars == <<heap, docs, result, ncalls, clients, defaults, inflight>>

-----------------------------------------------------------------------------
(* Bounds of the model *)

\* the number of mutating calls (add_*) on a document after which the
\* document is left alone
MaxCalls == 2

\* the number of client objects a run constructs
MaxClients == 1

\* the number of GETs the clients of a run send
MaxGets == 2

-----------------------------------------------------------------------------
(* Python values *)

PyStr(s) == [t |-> "str", s |-> s]
PyInt(n) == [t |-> "int", n |-> n]
PyNone == [t |-> "NoneType"]
PyList(l) == [t |-> "list", l |-> l]
PyDict(d) == [t |-> "dict", d |-> d]
PyRef(a) == [t |-> "ref", a |-> a]

EmptyDict == [k \in {} |-> PyNone]

\* bool(v), as used by "if type:" and friends
Truthy(v) ==
    CASE v.t = "str" -> v.s # <<>>
      [] v.t = "int" -> v.n # 0
      [] v.t = "NoneType" -> FALSE
      [] v.t = "list" -> v.l # <<>>
      [] v.t = "dict" -> DOMAIN v.d # {}
      [] OTHER -> TRUE

\* dict.update(other): keys of other win
Update(d, other) ==
    [k \in DOMAIN d \cup DOMAIN other |-> IF k \in DOMAIN other THEN other[k] ELSE d[k]]

\* d[k] = v
SetItem(d, k, v) == [x \in DOMAIN d \cup {k} |-> IF x = k THEN v ELSE d[x]]

\* the elements of s as a sequence, in a fixed order
RECURSIVE SetToSeq(_)
SetToSeq(s) ==
    IF s = {} THEN <<>>
    ELSE LET x == CHOOSE y \in s : TRUE IN <<x>> \o SetToSeq(s \ {x})

-----------------------------------------------------------------------------
(* webfinger/utils.py *)

\* ":" in string
is_uri(string) == \E i \in 1..Len(string) : string[i] = ":"

-----------------------------------------------------------------------------
(* webfinger/objects/__init__.py *)

URI(scheme, rest) == <<scheme, ":", rest>>

REL_NAMES ==
    [u \in { URI("http", "//activitystrea.ms/spec/1.0"),
             URI("http", "//webfinger.net/rel/avatar"),
             URI("http", "//microformats.org/profile/hcard"),
             URI("http", "//specs.openid.net/auth/2.0/provider"),
             URI("http", "//ns.opensocial.org/2008/opensocial/activitystreams"),
             URI("http", "//portablecontacts.net/spec/1.0"),
             URI("http", "//webfinger.net/rel/profile-page"),
             URI("http", "//webfist.org/spec/rel"),
             URI("http", "//gmpg.org/xfn/11") } |->
        CASE u = URI("http", "//activitystrea.ms/spec/1.0") -> <<"activity_streams">>
          [] u = URI("http", "//webfinger.net/rel/avatar") -> <<"avatar">>
          [] u = URI("http", "//microformats.org/profile/hcard") -> <<"hcard">>
          [] u = URI("http", "//specs.openid.net/auth/2.0/provider") -> <<"open_id">>
          [] u = URI("http", "//ns.opensocial.org/2008/opensocial/activitystreams") -> <<"opensocial">>
          [] u = URI("http", "//portablecontacts.net/spec/1.0") -> <<"portable_contacts">>
          [] u = URI("http", "//webfinger.net/rel/profile-page") -> <<"profile">>
          [] u = URI("http", "//webfist.org/spec/rel") -> <<"webfist">>
          [] u = URI("http", "//gmpg.org/xfn/11") -> <<"xfn">>]

\* {v: k for k, v in REL_NAMES.items()}
RELS ==
    [m \in {REL_NAMES[u] : u \in DOMAIN REL_NAMES} |->
        CHOOSE u \in DOMAIN REL_NAMES : REL_NAMES[u] = m]

\* REL_NAMES.get(rel, rel)
canonical_to_mnemonic(rel) == IF rel \in DOMAIN REL_NAMES THEN REL_NAMES[rel] ELSE rel

\* RELS[rel] if rel in RELS else rel
mnemonic_to_canonical(rel) == IF rel \in DOMAIN RELS THEN RELS[rel] ELSE rel

-----------------------------------------------------------------------------
(* webfinger/objects/link.py *)

K_rel == <<"rel">>
K_type == <<"type">>
K_href == <<"href">>
K_titles == <<"titles">>
K_properties == <<"properties">>
LinkParams == {K_rel, K_type, K_href, K_titles, K_properties}

\* the value bound to a keyword parameter whose default is None
Arg(args, k) == IF k \in DOMAIN args THEN args[k] ELSE PyNone

\* WebFingerLink with a slip: href is only checked to be a string
WebFingerLink_href_unchecked(args) ==
    LET type == Arg(args, K_type)
        href == Arg(args, K_href)
        titles == Arg(args, K_titles)
        properties == Arg(args, K_properties)
        kwargs == [k \in DOMAIN args \ LinkParams |-> args[k]]
        given == {k \in LinkParams \ {K_rel} : Arg(args, k) # PyNone}
        _link == [k \in {K_rel} \cup given \cup DOMAIN kwargs |-> args[k]]
        Err(s) == [status |-> s, link |-> EmptyDict]
    IN  IF K_rel \notin DOMAIN args THEN Err("TypeError")
        ELSE IF type # PyNone /\ type.t # "str" THEN Err("WebFingerJRDError")
        ELSE IF href # PyNone /\ href.t # "str" THEN Err("WebFingerJRDError")
        ELSE IF titles # PyNone /\ titles.t # "dict" THEN Err("WebFingerJRDError")
        ELSE IF titles # PyNone /\ \E k \in DOMAIN titles.d : titles.d[k].t # "str"
            THEN Err("WebFingerJRDError")
        ELSE IF properties # PyNone /\ properties.t # "dict" THEN Err("WebFingerJRDError")
        ELSE IF properties # PyNone /\ \E k \in DOMAIN properties.d :
                    \/ ~is_uri(k)
                    \/ properties.d[k].t # "str" \/ properties.d[k] # PyNone
            THEN Err("WebFingerJRDError")
        ELSE [status |-> "ok", link |-> _link]

\* WebFingerLink(**args): [status, link], link being the _link dict
WebFingerLink(args) ==
    LET type == Arg(args, K_type)
        href == Arg(args, K_href)
        titles == Arg(args, K_titles)
        properties == Arg(args, K_properties)
        kwargs == [k \in DOMAIN args \ LinkParams |-> args[k]]
        given == {k \in LinkParams \ {K_rel} : Arg(args, k) # PyNone}
        _link == [k \in {K_rel} \cup given \cup DOMAIN kwargs |-> args[k]]
        Err(s) == [status |-> s, link |-> EmptyDict]
    IN  IF K_rel \notin DOMAIN args THEN Err("TypeError")
        ELSE IF type # PyNone /\ type.t # "str" THEN Err("WebFingerJRDError")
        ELSE IF href # PyNone /\ href.t # "str" THEN Err("WebFingerJRDError")
        ELSE IF href # PyNone /\ ~is_uri(href.s) THEN Err("WebFingerJRDError")
        ELSE IF titles # PyNone /\ titles.t # "dict" THEN Err("WebFingerJRDError")
        ELSE IF titles # PyNone /\ \E k \in DOMAIN titles.d : titles.d[k].t # "str"
            THEN Err("WebFingerJRDError")
        ELSE IF properties # PyNone /\ properties.t # "dict" THEN Err("WebFingerJRDError")
        ELSE IF properties # PyNone /\ \E k \in DOMAIN properties.d :
                    \/ ~is_uri(k)
                    \/ properties.d[k].t # "str" \/ properties.d[k] # PyNone
            THEN Err("WebFingerJRDError")
        ELSE [status |-> "ok", link |-> _link]

-----------------------------------------------------------------------------
(* The heap of mutable Python objects *)

\* the address a new object gets on heap h
NewAddr(h) == Len(h) + 1

\* v with every reference replaced by the value it names
RECURSIVE Deep(_, _)
Deep(h, v) ==
    CASE v.t = "ref" -> Deep(h, h[v.a])
      [] v.t = "list" -> PyList([i \in DOMAIN v.l |-> Deep(h, v.l[i])])
      [] v.t = "dict" -> PyDict([k \in DOMAIN v.d |-> Deep(h, v.d[k])])
      [] OTHER -> v

IsContainer(v) == v.t \in {"list", "dict"}

\* a freshly created object with value v (a dict literal, or what json.loads
\* returns): a dict and the containers it holds are new objects on the heap
AllocValue(h, v) ==
    IF v.t # "dict" THEN [heap |-> h, value |-> v]
    ELSE LET keys == SetToSeq({k \in DOMAIN v.d : IsContainer(v.d[k])})
             h1 == h \o [i \in 1..Len(keys) |-> v.d[keys[i]]]
             addr(k) == Len(h) + (CHOOSE i \in 1..Len(keys) : keys[i] = k)
             d1 == [k \in DOMAIN v.d |->
                       IF IsContainer(v.d[k]) THEN PyRef(addr(k)) ELSE v.d[k]]
         IN  [heap |-> Append(h1, PyDict(d1)), value |-> PyRef(NewAddr(h1))]

-----------------------------------------------------------------------------
(* webfinger/objects/jrd.py: construction *)

K_subject == <<"subject">>
K_aliases == <<"aliases">>
K_links == <<"links">>

NoDoc == [jrd |-> PyNone]

\* link_rels_from with a slip: the buckets are keyed by the rel as stored
link_rels_from_raw_rel(links, i, link_rels) ==
    [k \in {links[j][K_rel].s : j \in DOMAIN links} |->
        SelectSeq(links, LAMBDA l : l[K_rel].s = k)]

\* the loop over self.links that fills self.link_rels, from link i on
RECURSIVE link_rels_from(_, _, _)
link_rels_from(links, i, link_rels) ==
    IF i > Len(links) THEN link_rels
    ELSE LET link == links[i]
             rel == canonical_to_mnemonic(link[K_rel].s)
             rel_list == IF rel \notin DOMAIN link_rels THEN <<>> ELSE link_rels[rel]
         IN  link_rels_from(links, i + 1, SetItem(link_rels, rel, Append(rel_list, link)))

\* WebFingerJRD with a slip: the subject is read with jrd.get("subject")
WebFingerJRD_subject_optional(h, jrd) ==
    IF jrd.t # "ref" \/ h[jrd.a].t # "dict"
    THEN [status |-> "WebFingerJRDError", heap |-> h, self |-> NoDoc]
    ELSE LET raw == h[jrd.a].d
             h1 == IF K_aliases \in DOMAIN raw THEN h ELSE Append(h, PyList(<<>>))
             h2 == IF K_properties \in DOMAIN raw THEN h1 ELSE Append(h1, PyDict(EmptyDict))
         IN  [status |-> "ok", heap |-> h2,
              self |-> [jrd |-> jrd,
                        subject |-> IF K_subject \in DOMAIN raw THEN raw[K_subject] ELSE PyNone,
                        aliases |-> IF K_aliases \in DOMAIN raw THEN raw[K_aliases]
                                    ELSE PyRef(NewAddr(h)),
                        properties |-> IF K_properties \in DOMAIN raw THEN raw[K_properties]
                                       ELSE PyRef(NewAddr(h1)),
                        links |-> <<>>, link_rels |-> EmptyDict]]

\* WebFingerJRD.__init__(self, jrd): [status, heap, self]
WebFingerJRD(h, jrd) ==
    LET Err(s) == [status |-> s, heap |-> h, self |-> NoDoc]
    IN  IF jrd.t # "ref" \/ h[jrd.a].t # "dict" THEN Err("WebFingerJRDError")
        ELSE LET raw == h[jrd.a].d IN
        IF K_subject \notin DOMAIN raw THEN Err("WebFingerJRDError")
        ELSE LET
            \* jrd.get("aliases", []), jrd.get("properties", {})
            h1 == IF K_aliases \in DOMAIN raw THEN h ELSE Append(h, PyList(<<>>))
            aliases == IF K_aliases \in DOMAIN raw THEN raw[K_aliases] ELSE PyRef(NewAddr(h))
            h2 == IF K_properties \in DOMAIN raw THEN h1 ELSE Append(h1, PyDict(EmptyDict))
            properties == IF K_properties \in DOMAIN raw THEN raw[K_properties]
                          ELSE PyRef(NewAddr(h1))
            rawlinks == IF K_links \in DOMAIN raw THEN Deep(h, raw[K_links]).l ELSE <<>>
            made == [i \in DOMAIN rawlinks |->
                        IF rawlinks[i].t # "dict"
                        THEN [status |-> "TypeError", link |-> EmptyDict]
                        ELSE WebFingerLink(rawlinks[i].d)]
            failed == {i \in DOMAIN made : made[i].status # "ok"}
            links == [i \in DOMAIN made |-> made[i].link]
        IN  IF failed # {}
            THEN Err(made[CHOOSE i \in failed : \A j \in failed : i <= j].status)
            ELSE [status |-> "ok", heap |-> h2,
                  self |-> [jrd |-> jrd, subject |-> raw[K_subject],
                            aliases |-> aliases, properties |-> properties,
                            links |-> links,
                            link_rels |-> link_rels_from(links, 1, EmptyDict)]]

\* "acct:"
ACCT == <<"acct", ":">>

\* subject.startswith(prefix)
startswith(s, prefix) == Len(s) >= Len(prefix) /\ SubSeq(s, 1, Len(prefix)) = prefix

\* build with a slip: "acct:" is prepended without looking at the subject
build_always_prefix(h, subject) ==
    IF ~(\E i \in 1..Len(subject.s) : subject.s[i] = "@")
    THEN [status |-> "WebFingerJRDError", heap |-> h, self |-> NoDoc]
    ELSE LET a == AllocValue(h, PyDict([k \in {K_subject} |-> PyStr(ACCT \o subject.s)]))
         IN  WebFingerJRD(a.heap, a.value)

\* WebFingerJRD.build(subject): [status, heap, self]
build(h, subject) ==
    IF subject.t \notin {"str", "list"}
    THEN [status |-> "TypeError", heap |-> h, self |-> NoDoc]
    ELSE IF subject.t = "str" /\ ~(\E i \in 1..Len(subject.s) : subject.s[i] = "@")
    THEN [status |-> "WebFingerJRDError", heap |-> h, self |-> NoDoc]
    ELSE IF subject.t = "list" /\ ~(\E i \in 1..Len(subject.l) : subject.l[i] = PyStr(<<"@">>))
    THEN [status |-> "WebFingerJRDError", heap |-> h, self |-> NoDoc]
    ELSE IF subject.t # "str"
    THEN [status |-> "WebFingerJRDError", heap |-> h, self |-> NoDoc]
    ELSE LET s == IF ~startswith(subject.s, ACCT) THEN ACCT \o subject.s ELSE subject.s
             a == AllocValue(h, PyDict([k \in {K_subject} |-> PyStr(s)]))
         IN  WebFingerJRD(a.heap, a.value)

-----------------------------------------------------------------------------
(* webfinger/objects/jrd.py: queries and mutators *)

\* list.append(v) on the list object named by ref
ListAppend(h, ref, v) == [h EXCEPT ![ref.a] = PyList(Append(@.l, v))]

\* d[k] = v on the dict object named by ref
DictSet(h, ref, k, v) == [h EXCEPT ![ref.a] = PyDict(SetItem(@.d, k, v))]

\* if key not in self.jrd: self.jrd[key] = <a new empty container>
EnsureKey(h, self, key, empty) ==
    IF key \in DOMAIN h[self.jrd.a].d THEN h
    ELSE DictSet(Append(h, empty), self.jrd, key, PyRef(NewAddr(h)))

\* rel with a slip: the relation is looked up as given
rel_untranslated(self, relation, attr) ==
    IF relation \notin DOMAIN self.link_rels
    THEN [status |-> "ok", value |-> PyNone]
    ELSE LET bucket == self.link_rels[relation] IN
         IF attr # PyNone
         THEN IF \E i \in DOMAIN bucket : attr.s \notin DOMAIN bucket[i]
              THEN [status |-> "KeyError", value |-> PyNone]
              ELSE [status |-> "ok",
                    value |-> PyList([i \in DOMAIN bucket |-> bucket[i][attr.s]])]
         ELSE [status |-> "ok",
               value |-> PyList([i \in DOMAIN bucket |-> PyDict(bucket[i])])]

\* WebFingerJRD.rel(self, relation, attr): [status, value]
rel(self, relation, attr) ==
    LET relation1 == IF relation \in DOMAIN REL_NAMES THEN REL_NAMES[relation] ELSE relation
    IN  IF relation1 \notin DOMAIN self.link_rels
        THEN [status |-> "ok", value |-> PyNone]
        ELSE LET bucket == self.link_rels[relation1] IN
             IF attr # PyNone
             THEN IF \E i \in DOMAIN bucket : attr.s \notin DOMAIN bucket[i]
                  THEN [status |-> "KeyError", value |-> PyNone]
                  ELSE [status |-> "ok",
                        value |-> PyList([i \in DOMAIN bucket |-> bucket[i][attr.s]])]
             ELSE [status |-> "ok",
                   value |-> PyList([i \in DOMAIN bucket |-> PyDict(bucket[i])])]

\* WebFingerJRD.add_alias(self, alias): [status, heap, self]
add_alias(h, self, alias) ==
    LET h1 == EnsureKey(h, self, K_aliases, PyList(<<>>))
        Err(s) == [status |-> s, heap |-> h1, self |-> self]
    IN  IF alias.t # "str" THEN Err("WebFingerJRDError")
        ELSE IF ~is_uri(alias.s) THEN Err("WebFingerJRDError")
        ELSE LET h2 == ListAppend(h1, self.aliases, alias)
                 h3 == ListAppend(h2, h2[self.jrd.a].d[K_aliases], alias)
             IN  [status |-> "ok", heap |-> h3, self |-> self]

\* add_property with a slip: the value is not looked at
add_property_any_value(h, self, uri, value) ==
    LET h1 == EnsureKey(h, self, K_properties, PyDict(EmptyDict))
        Err(s) == [status |-> s, heap |-> h1, self |-> self]
    IN  IF uri.t # "str" THEN Err("WebFingerJRDError")
        ELSE IF ~is_uri(uri.s) THEN Err("WebFingerJRDError")
        ELSE LET h2 == DictSet(h1, self.properties, uri.s, value)
                 h3 == DictSet(h2, h2[self.jrd.a].d[K_properties], uri.s, value)
             IN  [status |-> "ok", heap |-> h3, self |-> self]

\* WebFingerJRD.add_property(self, uri, value): [status, heap, self]
add_property(h, self, uri, value) ==
    LET h1 == EnsureKey(h, self, K_properties, PyDict(EmptyDict))
        Err(s) == [status |-> s, heap |-> h1, self |-> self]
    IN  IF uri.t # "str" THEN Err("WebFingerJRDError")
        ELSE IF ~is_uri(uri.s) THEN Err("WebFingerJRDError")
        ELSE IF value.t \notin {"str", "NoneType"} THEN Err("WebFingerJRDError")
        ELSE LET h2 == DictSet(h1, self.properties, uri.s, value)
                 h3 == DictSet(h2, h2[self.jrd.a].d[K_properties], uri.s, value)
             IN  [status |-> "ok", heap |-> h3, self |-> self]

\* the args dict add_link builds before it looks at misc
add_link_args(rel1, type, href, titles, properties) ==
    LET opt == [k \in {K_type, K_href, K_titles, K_properties} |->
                   CASE k = K_type -> type
                     [] k = K_href -> href
                     [] k = K_titles -> titles
                     [] k = K_properties -> properties]
    IN  [k \in {K_rel} \cup {x \in DOMAIN opt : Truthy(opt[x])} |->
            IF k = K_rel THEN PyStr(rel1) ELSE opt[k]]

\* add_link with a slip: args is appended to the raw links before the
\* WebFingerLink is made
add_link_raw_first(h, self, c) ==
    LET h1 == EnsureKey(h, self, K_links, PyList(<<>>))
        rel1 == IF c.rel.s \in DOMAIN RELS THEN RELS[c.rel.s] ELSE c.rel.s
    IN  IF ~is_uri(rel1) \/ c.misc.t # "dict"
        THEN [status |-> "WebFingerJRDError", heap |-> h1, self |-> self]
        ELSE LET args == Update(Update(add_link_args(rel1, c.type, c.href, c.titles,
                                                     c.properties),
                                       c.misc.d), c.kwargs)
                 made == WebFingerLink(args)
                 h2 == ListAppend(h1, h1[self.jrd.a].d[K_links], PyDict(args))
             IN  IF made.status # "ok"
                 THEN [status |-> made.status, heap |-> h2, self |-> self]
                 ELSE [status |-> "ok", heap |-> h2,
                       self |-> [self EXCEPT !.links = Append(@, made.link)]]

\* WebFingerJRD.add_link(self, rel, type=, href=, titles=, properties=,
\* misc=, **kwargs): [status, heap, self]
add_link(h, self, c) ==
    LET h1 == EnsureKey(h, self, K_links, PyList(<<>>))
        Err(s) == [status |-> s, heap |-> h1, self |-> self]
        rel1 == IF c.rel.s \in DOMAIN RELS THEN RELS[c.rel.s] ELSE c.rel.s
    IN  IF ~is_uri(rel1) THEN Err("WebFingerJRDError")
        ELSE IF c.misc.t # "dict" THEN Err("WebFingerJRDError")
        ELSE LET args == Update(Update(add_link_args(rel1, c.type, c.href, c.titles,
                                                     c.properties),
                                       c.misc.d), c.kwargs)
                 made == WebFingerLink(args)
             IN  IF made.status # "ok" THEN Err(made.status)
                 ELSE [status |-> "ok",
                       heap |-> ListAppend(h1, h1[self.jrd.a].d[K_links], PyDict(args)),
                       self |-> [self EXCEPT !.links = Append(@, made.link)]]

\* add_misc with a slip: the derived aliases follow a new "aliases" field
add_misc_rederiving(h, self, key, value) ==
    LET h1 == IF IsContainer(value)
              THEN DictSet(Append(h, value), self.jrd, key, PyRef(NewAddr(h)))
              ELSE DictSet(h, self.jrd, key, value)
    IN  [status |-> "ok", heap |-> h1,
         self |-> IF key = K_aliases /\ IsContainer(value)
                  THEN [self EXCEPT !.aliases = PyRef(NewAddr(h))] ELSE self]

\* WebFingerJRD.add_misc(self, key, value): [status, heap, self]
add_misc(h, self, key, value) ==
    IF IsContainer(value)
    THEN [status |-> "ok", self |-> self,
          heap |-> DictSet(Append(h, value), self.jrd, key, PyRef(NewAddr(h)))]
    ELSE [status |-> "ok", self |-> self, heap |-> DictSet(h, self.jrd, key, value)]

-----------------------------------------------------------------------------
(* JSON text: json.dumps and json.loads.  A text is a sequence of tokens. *)

Tok(k) == [k |-> k]
TokString(s) == [k |-> "string", s |-> s]
TokNumber(n) == [k |-> "number", n |-> n]

\* json.dumps(v) of a value without references
RECURSIVE dumps(_), dumps_elements(_, _), dumps_members(_, _, _)
dumps(v) ==
    CASE v.t = "str" -> <<TokString(v.s)>>
      [] v.t = "int" -> <<TokNumber(v.n)>>
      [] v.t = "NoneType" -> <<Tok("null")>>
      [] v.t = "list" -> <<Tok("[")>> \o dumps_elements(v.l, 1) \o <<Tok("]")>>
      [] v.t = "dict" ->
            <<Tok("{")>> \o dumps_members(v.d, SetToSeq(DOMAIN v.d), 1) \o <<Tok("}")>>

dumps_elements(l, i) ==
    IF i > Len(l) THEN <<>>
    ELSE (IF i > 1 THEN <<Tok(",")>> ELSE <<>>) \o dumps(l[i]) \o dumps_elements(l, i + 1)

dumps_members(d, keys, i) ==
    IF i > Len(keys) THEN <<>>
    ELSE (IF i > 1 THEN <<Tok(",")>> ELSE <<>>)
         \o <<TokString(keys[i]), Tok(":")>> \o dumps(d[keys[i]])
         \o dumps_members(d, keys, i + 1)

ParseError == [ok |-> FALSE, v |-> PyNone, i |-> 0]

Kind(text, i) == IF i \in DOMAIN text THEN text[i].k ELSE "eof"

\* the value that starts at token i of text, and the index after it
RECURSIVE parse_value(_, _), parse_elements(_, _, _), parse_members(_, _, _)
parse_value(text, i) ==
    CASE Kind(text, i) = "string" -> [ok |-> TRUE, v |-> PyStr(text[i].s), i |-> i + 1]
      [] Kind(text, i) = "number" -> [ok |-> TRUE, v |-> PyInt(text[i].n), i |-> i + 1]
      [] Kind(text, i) = "null" -> [ok |-> TRUE, v |-> PyNone, i |-> i + 1]
      [] Kind(text, i) = "[" ->
            IF Kind(text, i + 1) = "]"
            THEN [ok |-> TRUE, v |-> PyList(<<>>), i |-> i + 2]
            ELSE parse_elements(text, i + 1, <<>>)
      [] Kind(text, i) = "{" ->
            IF Kind(text, i + 1) = "}"
            THEN [ok |-> TRUE, v |-> PyDict(EmptyDict), i |-> i + 2]
            ELSE parse_members(text, i + 1, EmptyDict)
      [] OTHER -> ParseError

parse_elements(text, i, acc) ==
    LET e == parse_value(text, i)
    IN  IF ~e.ok THEN ParseError
        ELSE CASE Kind(text, e.i) = "," -> parse_elements(text, e.i + 1, Append(acc, e.v))
               [] Kind(text, e.i) = "]" ->
                     [ok |-> TRUE, v |-> PyList(Append(acc, e.v)), i |-> e.i + 1]
               [] OTHER -> ParseError

parse_members(text, i, acc) ==
    IF Kind(text, i) # "string" \/ Kind(text, i + 1) # ":" THEN ParseError
    ELSE LET e == parse_value(text, i + 2)
             d == SetItem(acc, text[i].s, e.v)
         IN  IF ~e.ok THEN ParseError
             ELSE CASE Kind(text, e.i) = "," -> parse_members(text, e.i + 1, d)
                    [] Kind(text, e.i) = "}" -> [ok |-> TRUE, v |-> PyDict(d), i |-> e.i + 1]
                    [] OTHER -> ParseError

\* json.loads(text): [status, value]
loads(text) ==
    LET r == parse_value(text, 1)
    IN  IF r.ok /\ r.i = Len(text) + 1
        THEN [status |-> "ok", value |-> r.v]
        ELSE [status |-> "JSONDecodeError", value |-> PyNone]

\* to_json with a slip: the derived fields are written instead of self.jrd
to_json_derived(h, self) ==
    dumps(PyDict([k \in {K_subject, K_aliases, K_properties} |->
        CASE k = K_subject -> self.subject
          [] k = K_aliases -> Deep(h, self.aliases)
          [] k = K_properties -> Deep(h, self.properties)]))

\* WebFingerJRD.to_json(self)
to_json(h, self) == dumps(Deep(h, self.jrd))

\* WebFingerJRD.from_json(text): [status, heap, self]
from_json(h, text) ==
    LET loaded == loads(text)
        a == AllocValue(h, loaded.value)
    IN  IF loaded.status # "ok"
        THEN [status |-> "WebFingerJRDError", heap |-> h, self |-> NoDoc]
        ELSE WebFingerJRD(a.heap, a.value)

-----------------------------------------------------------------------------
(* What the attributes of a document hold *)

\* self.jrd, by value
raw_of(h, self) == Deep(h, self.jrd).d

\* self.jrd.get(key, default), by value
raw_get(h, self, key, default) ==
    IF key \in DOMAIN raw_of(h, self) THEN raw_of(h, self)[key] ELSE default

\* self.aliases and self.properties, by value
aliases_of(h, self) == Deep(h, self.aliases).l
properties_of(h, self) == Deep(h, self.properties).d

-----------------------------------------------------------------------------
(* XML text: a sequence of tokens, a start tag with its attributes, a run   *)
(* of character data, or an end tag.  Names are written as in the text      *)
(* ("Link", "xml:lang"); the parser resolves them against the namespace     *)
(* declarations.                                                            *)

XStart(tag, attrib) == [k |-> "start", tag |-> tag, attrib |-> attrib]
XText(s) == [k |-> "text", s |-> s]
XEnd(tag) == [k |-> "end", tag |-> tag]

\* 'http://docs.oasis-open.org/ns/xri/xrd-1.0'
XRD_NS == URI("http", "//docs.oasis-open.org/ns/xri/xrd-1.0")

K_xmlns == <<"xmlns">>

\* ElementTree.tostring() of an element with the given text and no child:
\* a text of None writes nothing
XLeaf(tag, attrib, text) ==
    <<XStart(tag, attrib)>>
    \o (IF text = PyNone THEN <<>> ELSE <<XText(text.s)>>)
    \o <<XEnd(tag)>>

\* the sequences s[1] \o s[2] \o ...
RECURSIVE Flatten(_)
Flatten(s) == IF s = <<>> THEN <<>> ELSE Head(s) \o Flatten(Tail(s))

-----------------------------------------------------------------------------
(* webfinger/objects/jrd.py: to_xml *)

\* serialise_property(node, properties): SubElement("Property", {...}) is
\* called with a string where the parent element belongs and raises
\* TypeError, once the loop runs at all
serialise_property(properties) == IF properties = EmptyDict THEN "ok" ELSE "TypeError"

\* the body of 'for elem, attr in l.items()' for one field
link_field_to_xml(elem, attr) ==
    IF attr.t = "str" THEN "ok"
    ELSE IF attr.t = "dict"
    THEN IF elem = K_titles THEN "NameError"       \* v.items(): v is not defined
         ELSE IF elem = K_properties THEN serialise_property(attr.d)
         ELSE "WebFingerJRDError"
    ELSE "WebFingerJRDError"

\* the outcome of the loop over the fields of one link: that of the first
\* field that fails
link_to_xml(link) ==
    LET \* l.items(): the declared fields in the order __init__ stores them,
        \* then the extension fields
        items == SelectSeq(<<K_rel, K_type, K_href, K_titles, K_properties>>,
                           LAMBDA k : k \in DOMAIN link)
                 \o SetToSeq(DOMAIN link \ LinkParams)
        failed == {i \in DOMAIN items : link_field_to_xml(items[i], link[items[i]]) # "ok"}
    IN  IF failed = {} THEN "ok"
        ELSE LET i == CHOOSE j \in failed : \A x \in failed : j <= x
             IN  link_field_to_xml(items[i], link[items[i]])

\* WebFingerJRD.to_xml(self): [status, value]
to_xml(h, self) ==
    LET aliases == aliases_of(h, self)
        properties == properties_of(h, self)
        bad == {i \in DOMAIN self.links : link_to_xml(self.links[i]) # "ok"}
        Err(e) == [status |-> e, value |-> <<>>]
        \* the Link element of a link whose fields are all written
        link_element(link) ==
            XLeaf(<<"Link">>,
                  [k \in {x \in DOMAIN link : link[x].t = "str"} |-> link[k].s], PyNone)
    IN  IF serialise_property(properties) # "ok" THEN Err(serialise_property(properties))
        ELSE IF bad # {}
        THEN Err(link_to_xml(self.links[CHOOSE i \in bad : \A j \in bad : i <= j]))
        \* ElementTree.tostring() fails on a text that is no string
        ELSE IF \/ self.subject.t \notin {"str", "NoneType"}
                \/ \E i \in DOMAIN aliases : aliases[i].t \notin {"str", "NoneType"}
        THEN Err("WebFingerJRDError")
        ELSE [status |-> "ok",
              value |-> <<XStart(<<"XRD">>, [k \in {K_xmlns} |-> XRD_NS])>>
                        \o XLeaf(<<"Subject">>, EmptyDict, self.subject)
                        \o Flatten([i \in DOMAIN aliases |->
                                       XLeaf(<<"Alias">>, EmptyDict, aliases[i])])
                        \o Flatten([i \in DOMAIN self.links |-> link_element(self.links[i])])
                        \o <<XEnd(<<"XRD">>)>>]

-----------------------------------------------------------------------------
(* defusedxml.ElementTree.fromstring: the element tree of an XML text.  An  *)
(* element is [tag, attrib, text, children]; tag and attribute names are    *)
(* resolved against the namespace declarations in scope, a name in a        *)
(* namespace being "{namespace}local".                                      *)

\* the namespace every text binds the prefix xml to
XML_NS == URI("http", "//www.w3.org/XML/1998/namespace")

\* "prefix:local"
HasPrefix(name) == Len(name) >= 3 /\ name[2] = ":"
Local(name) == SubSeq(name, 3, Len(name))

\* "{namespace}local"
Qualified(ns, local) == <<"{">> \o ns \o <<"}">> \o local

\* an attribute that declares a namespace: xmlns="..." or xmlns:p="..."
IsDeclaration(name) == name = K_xmlns \/ (HasPrefix(name) /\ name[1] = "xmlns")

\* the prefixes in scope inside a start tag with these attributes; the
\* default namespace is the prefix ""
Declared(attrib, nsmap) ==
    LET decls == {a \in DOMAIN attrib : IsDeclaration(a)}
        prefix(a) == IF a = K_xmlns THEN "" ELSE Local(a)[1]
    IN  [q \in DOMAIN nsmap \cup {prefix(a) : a \in decls} |->
            IF \E a \in decls : prefix(a) = q
            THEN attrib[CHOOSE a \in decls : prefix(a) = q]
            ELSE nsmap[q]]

\* the name of an element written as name; an attribute is resolved in the
\* same way, but is in no namespace when it has no prefix
ResolveTag(name, nsmap) ==
    IF HasPrefix(name) THEN Qualified(nsmap[name[1]], Local(name))
    ELSE IF "" \in DOMAIN nsmap THEN Qualified(nsmap[""], name)
    ELSE name

XParseError == [ok |-> FALSE, elem |-> PyNone, elems |-> <<>>, i |-> 0]

\* the element that starts at token i, and the elements that follow one
\* another from token i on
RECURSIVE parse_element(_, _, _), parse_children(_, _, _, _)
parse_element(text, i, nsmap) ==
    IF Kind(text, i) # "start" THEN XParseError
    ELSE LET tok == text[i]
             ns1 == Declared(tok.attrib, nsmap)
             names == {a \in DOMAIN tok.attrib : ~IsDeclaration(a)}
             unbound == {n \in names \cup {tok.tag} :
                            HasPrefix(n) /\ n[1] \notin DOMAIN ns1}
             hasText == Kind(text, i + 1) = "text"
             ResolveAttr(a) == ResolveTag(a, [q \in DOMAIN ns1 \ {""} |-> ns1[q]])
             kids == parse_children(text, IF hasText THEN i + 2 ELSE i + 1, ns1, <<>>)
         IN  IF unbound # {} THEN XParseError
             ELSE IF ~kids.ok THEN XParseError
             ELSE IF Kind(text, kids.i) # "end" THEN XParseError
             ELSE IF text[kids.i].tag # tok.tag THEN XParseError
             ELSE [ok |-> TRUE, elems |-> <<>>, i |-> kids.i + 1,
                   elem |-> [tag |-> ResolveTag(tok.tag, ns1),
                             attrib |-> [k \in {ResolveAttr(a) : a \in names} |->
                                            tok.attrib[CHOOSE a \in names :
                                                          ResolveAttr(a) = k]],
                             text |-> IF hasText THEN PyStr(text[i + 1].s) ELSE PyNone,
                             children |-> kids.elems]]

parse_children(text, i, nsmap, acc) ==
    IF Kind(text, i) # "start"
    THEN [ok |-> TRUE, elem |-> PyNone, elems |-> acc, i |-> i]
    ELSE LET e == parse_element(text, i, nsmap)
         IN  IF ~e.ok THEN XParseError
             \* the character data after a child is its tail
             ELSE parse_children(text, IF Kind(text, e.i) = "text" THEN e.i + 1 ELSE e.i,
                                 nsmap, Append(acc, e.elem))

\* fromstring(text): [status, root]
fromstring(text) ==
    LET r == parse_element(text, 1, [q \in {"xml"} |-> XML_NS])
    IN  IF r.ok /\ r.i = Len(text) + 1
        THEN [status |-> "ok", root |-> r.elem]
        ELSE [status |-> "ParseError", root |-> PyNone]

-----------------------------------------------------------------------------
(* webfinger/objects/jrd.py: from_xml *)

\* node.findall("XRD:" + name, XMLNSMAP)
findall(node, name) ==
    SelectSeq(node.children, LAMBDA c : c.tag = Qualified(XRD_NS, name))

\* str.lower()
lower(string) ==
    [i \in DOMAIN string |-> IF string[i] \in {"TRUE", "True"} THEN "true" ELSE string[i]]

\* the key None of a dict: no string has an empty atom
K_None == <<"">>

\* parse_properties(node): [status, ret]
parse_properties(node) ==
    LET properties == findall(node, <<"Property">>)
        value(property) ==
            LET has_nil == IF <<"xsi", ":", "nil">> \in DOMAIN property.attrib
                           THEN lower(property.attrib[<<"xsi", ":", "nil">>])
                           ELSE <<>>
            IN  IF has_nil # <<>> /\ has_nil = <<"true">> THEN PyNone ELSE property.text
        keys == {properties[i].attrib[K_type] : i \in DOMAIN properties}
        last(key) == CHOOSE i \in DOMAIN properties :
                        /\ properties[i].attrib[K_type] = key
                        /\ \A j \in DOMAIN properties :
                                properties[j].attrib[K_type] = key => j <= i
    IN  IF \E i \in DOMAIN properties : K_type \notin DOMAIN properties[i].attrib
        THEN [status |-> "WebFingerJRDError", ret |-> EmptyDict]
        ELSE [status |-> "ok", ret |-> [key \in keys |-> value(properties[last(key)])]]

\* WebFingerJRD.from_xml(text): [status, heap, self]
from_xml(h, text) ==
    LET Err(e) == [status |-> e, heap |-> h, self |-> NoDoc]
        \* the titles_jrd a Link element with Title children leaves in
        \* jrd["titles"]
        titles_of(link) ==
            LET titles == findall(link, <<"Title">>)
                key(title) == IF title.text = PyNone THEN K_None ELSE title.text.s
                lang(title) == IF <<"xml", ":", "lang">> \in DOMAIN title.attrib
                               THEN title.attrib[<<"xml", ":", "lang">>] ELSE <<"und">>
                last(k) == CHOOSE i \in DOMAIN titles :
                                /\ key(titles[i]) = k
                                /\ \A j \in DOMAIN titles : key(titles[j]) = k => j <= i
            IN  [k \in {key(titles[i]) : i \in DOMAIN titles} |->
                    PyStr(lang(titles[last(k)]))]
        \* the link_jrd of a Link element whose properties are ret
        link_jrd_of(link, ret) ==
            LET attribs == [k \in DOMAIN link.attrib |-> PyStr(link.attrib[k])]
            IN  IF ret = EmptyDict THEN attribs
                ELSE SetItem(attribs, K_properties, PyDict(ret))
        \* the jrd built of the elements found under the root
        jrd_of(subject, aliases, properties, links, link_properties) ==
            LET titled == {i \in DOMAIN links : findall(links[i], <<"Title">>) # <<>>}
                keys == {K_subject}
                        \cup (IF aliases # <<>> THEN {K_aliases} ELSE {})
                        \cup (IF properties.ret # EmptyDict THEN {K_properties} ELSE {})
                        \cup (IF links # <<>> THEN {K_links} ELSE {})
                        \cup (IF titled # {} THEN {K_titles} ELSE {})
            IN  [k \in keys |->
                    CASE k = K_subject -> subject[1].text
                      [] k = K_aliases ->
                            PyList([i \in DOMAIN aliases |-> aliases[i].text])
                      [] k = K_properties -> PyDict(properties.ret)
                      [] k = K_links ->
                            PyList([i \in DOMAIN links |->
                                       PyDict(link_jrd_of(links[i], link_properties[i].ret))])
                      \* jrd["titles"] = {}: the titles of the last link that has some
                      [] k = K_titles ->
                            PyDict(titles_of(links[CHOOSE i \in titled :
                                                      \A j \in titled : j <= i]))]
        construct(a) == WebFingerJRD(a.heap, a.value)
        checked(subject, aliases, properties, links, link_properties) ==
            IF subject = <<>> THEN Err("WebFingerJRDError")
            ELSE IF \E i \in DOMAIN aliases : ~Truthy(aliases[i].text)
            THEN Err("WebFingerJRDError")
            ELSE IF properties.status # "ok" THEN Err("WebFingerJRDError")
            ELSE IF \E i \in DOMAIN links : link_properties[i].status # "ok"
            THEN Err("WebFingerJRDError")
            ELSE construct(AllocValue(h, PyDict(jrd_of(subject, aliases, properties, links,
                                                       link_properties))))
        with_links(root, links) ==
            checked(findall(root, <<"Subject">>), findall(root, <<"Alias">>),
                    parse_properties(root), links,
                    [i \in DOMAIN links |-> parse_properties(links[i])])
        \* 'raise WebFingerJRDERror(...)': the name is not defined
        of_parsed(parsed) ==
            IF parsed.status # "ok" THEN Err("NameError")
            ELSE with_links(parsed.root, findall(parsed.root, <<"Link">>))
    IN  of_parsed(fromstring(text))

-----------------------------------------------------------------------------
(* Inputs *)

ProfileURI == URI("http", "//webfinger.net/rel/profile-page")

\* arguments of build()
Subjects ==
    { PyStr(<<"user", "@", "host">>), PyStr(<<"acct", ":", "user", "@", "host">>),
      PyStr(<<"acct", "@", "host">>), PyStr(<<"no-at-sign">>),
      PyStr(<<"acct", ":", "nohost">>) }

J_empty == PyDict(EmptyDict)

J_subject == PyDict([k \in {K_subject} |-> PyStr(<<"acct", ":", "user", "@", "host">>)])

\* a response like the one of tests.py, TestWebFingerResponse.setUp; its
\* first and third links are of one relation, written in its two forms
J_full ==
    PyDict([k \in {K_subject, K_aliases, K_properties, K_links, <<"expires">>} |->
        CASE k = K_subject -> PyStr(<<"acct", ":", "a", "@", "b">>)
          [] k = K_aliases -> PyList(<<PyStr(URI("https", "//b/@a"))>>)
          [] k = K_properties ->
                PyDict([u \in {URI("http", "//b/ns/name")} |-> PyStr(<<"A">>)])
          [] k = K_links ->
                PyList(<< PyDict([f \in {K_rel, K_href, K_type} |->
                              CASE f = K_rel -> PyStr(ProfileURI)
                                [] f = K_href -> PyStr(URI("https", "//b/@a"))
                                [] f = K_type -> PyStr(<<"text/html">>)]),
                          PyDict([f \in {K_rel, K_href} |->
                              CASE f = K_rel -> PyStr(<<"self">>)
                                [] f = K_href -> PyStr(URI("https", "//b/users/a"))]),
                          PyDict([f \in {K_rel, K_href} |->
                              CASE f = K_rel -> PyStr(<<"profile">>)
                                [] f = K_href -> PyStr(URI("https", "//b/a"))]) >>)
          [] k = <<"expires">> -> PyNone])

\* a subject and one link whose rel is the empty string, and one whose link
\* has no rel
J_emptyrel ==
    PyDict([k \in {K_subject, K_links} |->
        IF k = K_subject THEN PyStr(<<"acct", ":", "a", "@", "b">>)
        ELSE PyList(<<PyDict([f \in {K_rel, K_href} |->
                        IF f = K_rel THEN PyStr(<<>>) ELSE PyStr(URI("https", "//b/@a"))])>>)])

J_norel ==
    PyDict([k \in {K_subject, K_links} |->
        IF k = K_subject THEN PyStr(<<"acct", ":", "a", "@", "b">>)
        ELSE PyList(<<PyDict([f \in {K_href} |-> PyStr(URI("https", "//b/@a"))])>>)])

\* arguments of WebFingerJRD(): mappings, and a string that is not a mapping
Inputs == {J_empty, J_subject, J_full, J_emptyrel, J_norel, PyStr(<<"{}">>)}

\* arguments of from_json(): the texts of the inputs, and a text cut short
Texts == {dumps(J) : J \in Inputs} \cup {<<Tok("{"), TokString(K_subject)>>}

\* arguments of add_alias()
Aliases == {PyStr(URI("http", "//example.org")), PyStr(<<"invalid">>), PyInt(4)}

\* arguments of add_property()
PropertyURIs == {PyStr(URI("http", "//example.com")), PyStr(<<"test">>), PyInt(4)}
PropertyValues == {PyStr(<<"test">>), PyNone, PyInt(4)}

\* arguments of add_link()
LinkRels == {PyStr(<<"profile">>), PyStr(URI("http", "//test.example")), PyStr(<<"invalid">>)}
LinkTypes == {PyNone, PyStr(<<"text/html">>), PyInt(4), PyInt(0)}
LinkHrefs == {PyNone, PyStr(URI("https", "//b/users/a.atom")), PyStr(<<"invalid">>),
              PyStr(<<>>)}
LinkTitles == {PyNone, PyDict([x \in {<<"Profile">>} |-> PyStr(<<"en">>)])}
LinkProperties == {PyNone, PyDict([x \in {URI("http", "//b/ns/role")} |-> PyStr(<<"x">>)])}
MiscTest == PyDict([x \in {<<"test">>} |-> PyStr(<<"test extra param">>)])
MiscRel == PyDict([x \in {K_rel} |-> PyStr(<<"invalid">>)])
LinkMiscs == {PyDict(EmptyDict), MiscTest, MiscRel, PyList(<<>>)}
LinkKwargs == {EmptyDict, [x \in {<<"template">>} |-> PyStr(URI("https", "//b/follow?acct={uri}"))]}

\* the number of optional arguments of call c that are not their default
NonDefault(c) ==
    Cardinality({k \in {"type", "href", "titles", "properties"} : c[k] # PyNone})
    + (IF c.misc # PyDict(EmptyDict) THEN 1 ELSE 0)
    + (IF c.kwargs # EmptyDict THEN 1 ELSE 0)

\* the call of tests.py, TestWebFingerBuild.setUp
TestLinkCall ==
    [rel |-> PyStr(<<"profile">>), type |-> PyStr(<<"text/html">>),
     href |-> PyStr(URI("https", "//b/users/a.atom")), titles |-> PyNone,
     properties |-> PyNone, misc |-> MiscTest, kwargs |-> EmptyDict]

\* the add_link calls: any rel alone, a mnemonic rel with one optional
\* argument, and the call of the tests
LinkCalls ==
    {c \in [rel : LinkRels, type : LinkTypes, href : LinkHrefs, titles : LinkTitles,
            properties : LinkProperties, misc : LinkMiscs, kwargs : LinkKwargs] :
        \/ NonDefault(c) = 0
        \/ NonDefault(c) = 1 /\ c.rel = PyStr(<<"profile">>)} \cup {TestLinkCall}

\* arguments of add_misc(): an unknown key, and a key the document knows
MiscCalls ==
    { [key |-> <<"test-extra">>, value |-> PyStr(<<"123">>)],
      [key |-> K_aliases, value |-> PyList(<<PyStr(URI("http", "//example.net"))>>)] }

\* arguments of rel()
Relations == {<<"profile">>, ProfileURI, <<>>}
Attrs == {PyNone, PyStr(K_type), PyStr(K_href)}

-----------------------------------------------------------------------------
(* The state machine: one document is constructed, then queried and mutated *)

\* the names of the documents a run can hold
DocIds == {1, 2}

\* the two client classes, WebFingerClient of client/requests.py and of
\* client/aiohttp.py
ClientKinds == {"requests", "aiohttp"}

Init ==
    /\ heap = <<>>
    /\ docs = <<>>
    /\ result = [op |-> "none", status |-> "ok"]
    /\ ncalls = 0
    /\ clients = <<>>
    \* params=dict(), headers=dict(): the default argument objects of each
    \* finger() function, made once, when the function is defined
    /\ defaults = [kind \in ClientKinds |-> [params |-> EmptyDict, headers |-> EmptyDict]]
    /\ inflight = PyNone

\* the outcome r of a constructor
Constructed(r) ==
    /\ heap' = IF r.status = "ok" THEN r.heap ELSE heap
    /\ docs' = IF r.status = "ok" THEN Append(docs, r.self) ELSE docs
    /\ UNCHANGED <<ncalls, clients, defaults, inflight>>

\* WebFingerJRD(jrd)
New(jrd) ==
    /\ docs = <<>>
    /\ LET a == AllocValue(heap, jrd)
           r == WebFingerJRD(a.heap, a.value)
       IN  /\ Constructed(r)
           /\ result' = [op |-> "WebFingerJRD", status |-> r.status, jrd |-> jrd]

\* WebFingerJRD.from_json(text)
FromJson(text) ==
    /\ docs = <<>>
    /\ LET r == from_json(heap, text)
       IN  /\ Constructed(r)
           /\ result' = [op |-> "from_json", status |-> r.status, text |-> text]

\* WebFingerJRD.build(subject)
Build(subject) ==
    /\ docs = <<>>
    /\ LET r == build(heap, subject)
       IN  /\ Constructed(r)
           /\ result' = [op |-> "build", status |-> r.status, subject |-> subject]

\* the outcome r of a mutator called on document d
Mutated(d, r) ==
    /\ heap' = r.heap
    /\ docs' = [docs EXCEPT ![d] = r.self]
    /\ ncalls' = ncalls + 1
    /\ UNCHANGED <<clients, defaults, inflight>>

AddAlias(d, alias) ==
    /\ d \in DOMAIN docs
    /\ ncalls < MaxCalls
    /\ LET r == add_alias(heap, docs[d], alias)
       IN  /\ Mutated(d, r)
           /\ result' = [op |-> "add_alias", status |-> r.status, d |-> d, alias |-> alias]

AddProperty(d, uri, value) ==
    /\ d \in DOMAIN docs
    /\ ncalls < MaxCalls
    /\ LET r == add_property(heap, docs[d], uri, value)
       IN  /\ Mutated(d, r)
           /\ result' = [op |-> "add_property", status |-> r.status, d |-> d,
                         uri |-> uri, value |-> value]

AddLink(d, c) ==
    /\ d \in DOMAIN docs
    /\ ncalls < MaxCalls
    /\ LET r == add_link(heap, docs[d], c)
       IN  /\ Mutated(d, r)
           /\ result' = [op |-> "add_link", status |-> r.status, d |-> d, call |-> c]

AddMisc(d, c) ==
    /\ d \in DOMAIN docs
    /\ ncalls < MaxCalls
    /\ LET r == add_misc(heap, docs[d], c.key, c.value)
       IN  /\ Mutated(d, r)
           /\ result' = [op |-> "add_misc", status |-> r.status, d |-> d,
                         key |-> c.key, value |-> c.value]

\* rel(relation, attr)
Rel(d, relation, attr) ==
    /\ d \in DOMAIN docs
    /\ ncalls < MaxCalls
    /\ LET r == rel(docs[d], relation, attr)
       IN  result' = [op |-> "rel", status |-> r.status, d |-> d,
                      relation |-> relation, attr |-> attr, value |-> r.value]
    /\ UNCHANGED <<heap, docs, ncalls, clients, defaults, inflight>>

\* to_json()
ToJson(d) ==
    /\ d \in DOMAIN docs
    /\ ncalls < MaxCalls
    /\ result' = [op |-> "to_json", status |-> "ok", d |-> d,
                  value |-> to_json(heap, docs[d])]
    /\ UNCHANGED <<heap, docs, ncalls, clients, defaults, inflight>>

\* to_xml()
ToXml(d) ==
    /\ d \in DOMAIN docs
    /\ ncalls < MaxCalls
    /\ LET r == to_xml(heap, docs[d])
       IN  result' = [op |-> "to_xml", status |-> r.status, d |-> d, value |-> r.value]
    /\ UNCHANGED <<heap, docs, ncalls, clients, defaults, inflight>>

Next ==
    \/ \E jrd \in Inputs : New(jrd)
    \/ \E text \in Texts : FromJson(text)
    \/ \E subject \in Subjects : Build(subject)
    \/ \E d \in DocIds, alias \in Aliases : AddAlias(d, alias)
    \/ \E d \in DocIds, uri \in PropertyURIs, value \in PropertyValues :
            AddProperty(d, uri, value)
    \/ \E d \in DocIds, c \in LinkCalls : AddLink(d, c)
    \/ \E d \in DocIds, c \in MiscCalls : AddMisc(d, c)
    \/ \E d \in DocIds, relation \in Relations, attr \in Attrs : Rel(d, relation, attr)
    \/ \E d \in DocIds : ToJson(d)
    \/ \E d \in DocIds : ToXml(d)

Spec == Init /\ [][Next]_vars

-----------------------------------------------------------------------------
(* What a caller can observe of a document *)

\* self.jrd.get("links", []) and the like, by value
raw_aliases(h, self) == raw_get(h, self, K_aliases, PyList(<<>>)).l
raw_properties(h, self) == raw_get(h, self, K_properties, PyDict(EmptyDict)).d
raw_links(h, self) == raw_get(h, self, K_links, PyList(<<>>)).l

\* the fields of a document, by value
Fields(h, self) ==
    [subject |-> self.subject, aliases |-> aliases_of(h, self),
     properties |-> properties_of(h, self), links |-> self.links,
     jrd |-> raw_of(h, self)]

\* the fields and the relation index
View(h, self) == [fields |-> Fields(h, self), link_rels |-> self.link_rels]

Constructors == {"WebFingerJRD", "from_json", "build"}
Mutators == {"add_alias", "add_property", "add_link", "add_misc"}

\* the links of self whose mnemonic-resolved rel is key, in order
LinksWithRel(self, key) ==
    SelectSeq(self.links, LAMBDA l : canonical_to_mnemonic(l[K_rel].s) = key)

-----------------------------------------------------------------------------
(* C1 *)

\* C1: in every document, the relation index bucket keyed by the
\* mnemonic-resolved rel of each link of links holds exactly the links with
\* that rel, in order, and rel() of that relation returns them.
C1_IndexFollowsAddLink ==
    \A d \in DOMAIN docs : \A i \in DOMAIN docs[d].links :
        LET self == docs[d]
            key == canonical_to_mnemonic(self.links[i][K_rel].s)
        IN  /\ key \in DOMAIN self.link_rels
            /\ self.link_rels[key] = LinksWithRel(self, key)
            /\ rel(self, self.links[i][K_rel].s, PyNone).value
                   = PyList([j \in DOMAIN LinksWithRel(self, key) |->
                                PyDict(LinksWithRel(self, key)[j])])

-----------------------------------------------------------------------------
(* C2 *)

\* C2: an add_alias, add_property or add_link call that fails leaves the raw
\* document, its set of top-level keys, the derived fields and the relation
\* index as they were.
C2_FailedCallChangesNothing ==
    [][(result'.op \in {"add_alias", "add_property", "add_link"} /\ result'.status # "ok")
        => View(heap', docs'[result'.d]) = View(heap, docs[result'.d])]_vars

-----------------------------------------------------------------------------
(* C3 *)

\* the add_link calls that must be refused: a rel that is neither a URI nor a
\* mnemonic, an href that is given and not URI-shaped, a type that is given
\* and not a string
ListedRejection(c) ==
    \/ ~is_uri(mnemonic_to_canonical(c.rel.s))
    \/ Truthy(c.href) /\ (c.href.t # "str" \/ ~is_uri(c.href.s))
    \/ Truthy(c.type) /\ c.type.t # "str"

-----------------------------------------------------------------------------
(* C4 *)

\* parsing to_json() of a document gives a document with the same fields
RoundTrip(h, self) ==
    LET r == from_json(h, to_json(h, self))
    IN  r.status = "ok" /\ Fields(r.heap, r.self) = Fields(h, self)

\* C4 as stated: every document, however it was constructed and whatever
\* successful add_* calls were made on it, equals the parse of its to_json().
C4_RoundTripAnyCalls == \A d \in DOMAIN docs : RoundTrip(heap, docs[d])

\* the top-level keys the document derives its fields from
KnownKeys == {K_subject, K_aliases, K_properties, K_links}

\* C4 amended: a constructed document equals the parse of its to_json(), and
\* every add_alias, add_property and add_link call, and every add_misc call
\* whose key is none of subject, aliases, properties, links, keeps it so.
C4_RoundTrip ==
    [][/\ (result'.op \in Constructors /\ result'.status = "ok")
            => RoundTrip(heap', docs'[Len(docs')])
       /\ (/\ result'.op \in Mutators
           /\ ~(result'.op = "add_misc" /\ result'.key \in KnownKeys)
           /\ RoundTrip(heap, docs[result'.d]))
            => RoundTrip(heap', docs'[result'.d])]_vars

\* a built document with an alias, a link and an extension field round-trips
C4_Witness ==
    /\ result.op = "add_link" /\ result.status = "ok"
    /\ result.call = TestLinkCall
    /\ docs[result.d].subject = PyStr(<<"acct", ":", "user", "@", "host">>)
    /\ Len(aliases_of(heap, docs[result.d])) = 1
    /\ RoundTrip(heap, docs[result.d])

-----------------------------------------------------------------------------
(* C5 *)

\* C5: the two directions of the relation table are inverse on its pairs and
\* the identity on other names, and on every document rel() gives the same
\* result for a mnemonic and for its URI, with and without an attr.
C5_MnemonicSymmetry ==
    /\ \A u \in DOMAIN REL_NAMES :
        /\ canonical_to_mnemonic(u) = REL_NAMES[u]
        /\ mnemonic_to_canonical(REL_NAMES[u]) = u
        /\ canonical_to_mnemonic(mnemonic_to_canonical(REL_NAMES[u])) = REL_NAMES[u]
    /\ \A x \in {l.s : l \in LinkRels} \cup Relations :
        /\ x \notin DOMAIN REL_NAMES => canonical_to_mnemonic(x) = x
        /\ x \notin DOMAIN RELS => mnemonic_to_canonical(x) = x
    /\ \A d \in DOMAIN docs : \A u \in DOMAIN REL_NAMES :
        \A attr \in Attrs \cup {PyStr(K_href), PyStr(<<"template">>)} :
            rel(docs[d], REL_NAMES[u], attr) = rel(docs[d], u, attr)

\* rel() of the URI of a mnemonic found links
C5_Witness ==
    /\ result.op = "rel" /\ result.status = "ok"
    /\ result.relation = ProfileURI
    /\ result.value # PyNone
    /\ rel(docs[result.d], <<"profile">>, result.attr).value = result.value

-----------------------------------------------------------------------------
(* C6 *)

\* C6: WebFingerJRD() of a mapping without a subject fails with
\* WebFingerJRDError and gives no document; of a mapping with only a subject
\* it gives a document with aliases [], properties {} and links [].
C6_SubjectRequired ==
    (result.op = "WebFingerJRD" /\ result.jrd.t = "dict") =>
        /\ K_subject \notin DOMAIN result.jrd.d =>
            result.status = "WebFingerJRDError" /\ docs = <<>>
        /\ DOMAIN result.jrd.d = {K_subject} =>
            /\ result.status = "ok" /\ Len(docs) = 1
            /\ docs[1].subject = result.jrd.d[K_subject]
            /\ aliases_of(heap, docs[1]) = <<>>
            /\ properties_of(heap, docs[1]) = EmptyDict
            /\ docs[1].links = <<>>

\* the mapping {} was refused
C6_Witness ==
    /\ result.op = "WebFingerJRD" /\ result.jrd = J_empty
    /\ result.status = "WebFingerJRDError"
    /\ docs = <<>>

-----------------------------------------------------------------------------
(* C7 *)

\* "@" in s
HasAt(s) == \E i \in 1..Len(s) : s[i] = "@"

\* C7: build(s) of a string with "@" gives a document whose subject is s when
\* s starts with "acct:" and "acct:" + s otherwise, building again from that
\* subject gives the same subject, and build(s) of a string without "@"
\* fails with WebFingerJRDError.
C7_SubjectNormalized ==
    (result.op = "build" /\ result.subject.t = "str") =>
        LET s == result.subject.s IN
        /\ ~HasAt(s) => result.status = "WebFingerJRDError" /\ docs = <<>>
        /\ HasAt(s) =>
            /\ result.status = "ok" /\ Len(docs) = 1
            /\ docs[1].subject.t = "str"
            /\ (s[1] = "acct" /\ s[2] = ":") => docs[1].subject.s = s
            /\ ~(s[1] = "acct" /\ s[2] = ":") => docs[1].subject.s = <<"acct", ":">> \o s
            /\ raw_of(heap, docs[1])[K_subject] = docs[1].subject
            /\ build(heap, docs[1].subject).status = "ok"
            /\ build(heap, docs[1].subject).self.subject = docs[1].subject

\* a subject that had the prefix was built without a second one
C7_Witness ==
    /\ result.op = "build" /\ result.status = "ok"
    /\ result.subject = PyStr(<<"acct", ":", "user", "@", "host">>)
    /\ docs[1].subject = result.subject

-----------------------------------------------------------------------------
(* C8 *)

\* C8: a successful add_alias(a) makes the derived aliases and the raw
\* document's aliases the previous aliases followed by one a.
C8_AliasAppendedOnce ==
    [][(result'.op = "add_alias" /\ result'.status = "ok") =>
        LET d == result'.d IN
        /\ aliases_of(heap', docs'[d]) = Append(aliases_of(heap, docs[d]), result'.alias)
        /\ raw_aliases(heap', docs'[d]) = Append(raw_aliases(heap, docs[d]), result'.alias)]_vars

-----------------------------------------------------------------------------
(* C9 *)

\* C9: add_property(uri, value) succeeds exactly when uri is a URI-shaped
\* string and value is a string or None; then the derived and the raw
\* properties are the previous ones with properties[uri] = value, every
\* other key as it was.
C9_PropertySet ==
    [][result'.op = "add_property" =>
        LET d == result'.d
            uri == result'.uri
            value == result'.value
        IN  /\ result'.status = "ok" <=>
                /\ uri.t = "str" /\ (\E i \in 1..Len(uri.s) : uri.s[i] = ":")
                /\ value.t \in {"str", "NoneType"}
            /\ result'.status = "ok" =>
                /\ properties_of(heap', docs'[d])
                       = SetItem(properties_of(heap, docs[d]), uri.s, value)
                /\ raw_properties(heap', docs'[d])
                       = SetItem(raw_properties(heap, docs[d]), uri.s, value)]_vars

\* a property was set to None next to another property that kept its value
C9_Witness ==
    /\ result.op = "add_property" /\ result.status = "ok"
    /\ result.value = PyNone
    /\ LET p == properties_of(heap, docs[result.d])
       IN  /\ p = raw_properties(heap, docs[result.d])
           /\ p[result.uri.s] = PyNone
           /\ \E k \in DOMAIN p : k # result.uri.s /\ p[k] # PyNone

-----------------------------------------------------------------------------
(* C10 *)

\* C10: the link a successful add_link call appends, to links and to the raw
\* document, has the rel mnemonic_to_canonical of the rel argument, and that
\* rel is URI-shaped.
C10_StoredRelCanonical ==
    [][(result'.op = "add_link" /\ result'.status = "ok") =>
        LET d == result'.d
            links == docs'[d].links
            raw == raw_links(heap', docs'[d])
        IN  /\ Len(links) = Len(docs[d].links) + 1
            /\ links[Len(links)][K_rel] = PyStr(mnemonic_to_canonical(result'.call.rel.s))
            /\ raw[Len(raw)].d[K_rel] = PyStr(mnemonic_to_canonical(result'.call.rel.s))
            /\ is_uri(links[Len(links)][K_rel].s)]_vars

-----------------------------------------------------------------------------
(* C21 *)

\* C21: add_misc(key, value) succeeds for every key and value, makes the raw
\* document the previous one with the field key set to value, every other
\* raw field as it was, and leaves the derived subject, aliases, properties,
\* links and the relation index unchanged.
C21_AddMiscFrame ==
    [][result'.op = "add_misc" =>
        LET d == result'.d
            before == Fields(heap, docs[d])
            after == Fields(heap', docs'[d])
        IN  /\ result'.status = "ok"
            /\ after.jrd = SetItem(before.jrd, result'.key, result'.value)
            /\ after.subject = before.subject
            /\ after.aliases = before.aliases
            /\ after.properties = before.properties
            /\ after.links = before.links
            /\ docs'[d].link_rels = docs[d].link_rels]_vars

\* add_misc has replaced the "aliases" field of a document that has an
\* alias: the raw field is the new list, the derived aliases are the old one
C21_Witness ==
    /\ result.op = "add_misc" /\ result.key = K_aliases
    /\ raw_aliases(heap, docs[result.d]) = result.value.l
    /\ aliases_of(heap, docs[result.d]) # <<>>
    /\ aliases_of(heap, docs[result.d]) # result.value.l

-----------------------------------------------------------------------------
(* C22 *)

\* C22: in the document a constructor returns, and for as long as no add_link
\* call has succeeded on it, the keys of the relation index are the
\* mnemonics of the rels of links (the rel itself where it has no mnemonic),
\* and the bucket of each key holds exactly the links of that key, in their
\* order in links: every link is in one bucket, and in no other.
C22_IndexAfterConstruction ==
    [][LET Key(link) == IF link[K_rel].s \in DOMAIN REL_NAMES
                        THEN REL_NAMES[link[K_rel].s] ELSE link[K_rel].s
           Indexed(self) ==
               /\ DOMAIN self.link_rels = {Key(self.links[i]) : i \in DOMAIN self.links}
               /\ \A k \in DOMAIN self.link_rels :
                      self.link_rels[k] = SelectSeq(self.links, LAMBDA l : Key(l) = k)
       IN  /\ (result'.op \in Constructors /\ result'.status = "ok")
                  => Indexed(docs'[Len(docs')])
           /\ \A d \in DOMAIN docs :
                  (Indexed(docs[d]) /\ ~(result'.op = "add_link" /\ result'.status = "ok"))
                      => Indexed(docs'[d])]_vars

\* a document was constructed with two links in the bucket "profile", one
\* stored with the URI of the relation and one with its mnemonic, and a
\* third link in another bucket
C22_Witness ==
    /\ result.op \in Constructors /\ result.status = "ok"
    /\ Len(docs[1].links) = 3
    /\ <<"profile">> \in DOMAIN docs[1].link_rels
    /\ Len(docs[1].link_rels[<<"profile">>]) = 2
    /\ docs[1].link_rels[<<"profile">>][1][K_rel] # docs[1].link_rels[<<"profile">>][2][K_rel]
    /\ Cardinality(DOMAIN docs[1].link_rels) = 2

-----------------------------------------------------------------------------
(* C23 *)

\* C23: every link of every document, whether constructed or reached by
\* add_link calls, has a rel field, and that rel is not empty.
C23_RelPresentNonEmpty ==
    \A d \in DOMAIN docs : \A i \in DOMAIN docs[d].links :
        /\ K_rel \in DOMAIN docs[d].links[i]
        /\ Truthy(docs[d].links[i][K_rel])

-----------------------------------------------------------------------------
(* The parsers applied to texts *)

\* XRD texts: a root with or without a Subject, with no Alias, one, or an
\* empty one, with no Property, one, or one without a type, and with up to
\* two Link elements that have Title and Property children or none; and
\* texts that are not well-formed
XTexts ==
    LET El(tag, attrib, inner) == <<XStart(tag, attrib)>> \o inner \o <<XEnd(tag)>>
        Title(lang, text) ==
            El(<<"Title">>, [k \in {<<"xml", ":", "lang">>} |-> lang], <<XText(text)>>)
        Property(uri, text) == El(<<"Property">>, [k \in {K_type} |-> uri], <<XText(text)>>)
        Link(r, href, inner) ==
            El(<<"Link">>, [k \in {K_rel, K_href} |-> IF k = K_rel THEN r ELSE href], inner)
        titles == { <<>>, Title(<<"en">>, <<"Profile">>),
                    Title(<<"en">>, <<"Profile">>) \o Title(<<"fr">>, <<"Profil">>) }
        first == { Link(ProfileURI, URI("https", "//b/@a"), t \o p) :
                     t \in titles, p \in {<<>>, Property(URI("http", "//b/ns/role"), <<"x">>)} }
        second == { Link(<<"self">>, URI("https", "//b/users/a"), t) :
                      t \in {<<>>, Title(<<"de">>, <<"Selbst">>)} }
        links == {<<>>} \cup first \cup {a \o b : a \in first, b \in second}
        subjects == {<<>>, El(<<"Subject">>, EmptyDict, <<XText(<<"acct", ":", "a", "@", "b">>)>>)}
        aliases == { <<>>, El(<<"Alias">>, EmptyDict, <<XText(URI("https", "//b/@a"))>>),
                     El(<<"Alias">>, EmptyDict, <<>>) }
        properties == { <<>>, Property(URI("http", "//b/ns/name"), <<"A">>),
                        El(<<"Property">>, EmptyDict, <<XText(<<"A">>)>>) }
        Root(inner) == El(<<"XRD">>, [k \in {K_xmlns} |-> XRD_NS], inner)
    IN  { Root(sub \o al \o pr \o li) :
            sub \in subjects, al \in aliases, pr \in properties, li \in links }
        \cup { <<>>,
               <<XText(<<"not xml">>)>>,
               <<XStart(<<"XRD">>, EmptyDict)>>,
               <<XStart(<<"XRD">>, EmptyDict), XEnd(<<"Subject">>)>>,
               Root(<<>>) \o Root(<<>>),
               <<XStart(<<"x", ":", "XRD">>, EmptyDict), XEnd(<<"x", ":", "XRD">>)>> }

\* WebFingerJRD.from_xml(text)
FromXml(text) ==
    /\ docs = <<>>
    /\ LET r == from_xml(heap, text)
       IN  /\ Constructed(r)
           /\ result' = [op |-> "from_xml", status |-> r.status, text |-> text]

NextParse ==
    \/ \E text \in Texts : FromJson(text)
    \/ \E text \in XTexts : FromXml(text)

SpecParse == Init /\ [][NextParse]_vars

-----------------------------------------------------------------------------
(* C24 *)

\* C24: from_json and from_xml either return a document or fail with
\* WebFingerJRDError, whatever the text: a text that is not valid JSON, or
\* not well-formed XML, fails with WebFingerJRDError, and no other exception
\* leaves either parser.
C24_MalformedIsDocumentError ==
    result.op \in {"from_json", "from_xml"} =>
        /\ result.status \in {"ok", "WebFingerJRDError"}
        /\ (result.op = "from_json" /\ loads(result.text).status # "ok")
                => result.status = "WebFingerJRDError"
        /\ (result.op = "from_xml" /\ fromstring(result.text).status # "ok")
                => result.status = "WebFingerJRDError"

-----------------------------------------------------------------------------
(* C25 *)

\* C25: from_xml of a well-formed XRD with a Subject, Alias elements that
\* have content and typed Property elements returns a document with one link
\* for each Link element, in order; the fields of the link are the
\* attributes of the element, with "properties" holding its Property
\* children if it has some and "titles" holding an entry for each of its
\* Title children if it has some; the document gets no top-level "titles".
C25_LinksFromXml ==
    (result.op = "from_xml" /\ fromstring(result.text).status = "ok") =>
        LET root == fromstring(result.text).root
            links == findall(root, <<"Link">>)
            Typed(node) == \A i \in DOMAIN findall(node, <<"Property">>) :
                              K_type \in DOMAIN findall(node, <<"Property">>)[i].attrib
            acceptable ==
                /\ findall(root, <<"Subject">>) # <<>>
                /\ \A i \in DOMAIN findall(root, <<"Alias">>) :
                      Truthy(findall(root, <<"Alias">>)[i].text)
                /\ Typed(root)
                /\ \A i \in DOMAIN links : Typed(links[i])
        IN  acceptable =>
                /\ result.status = "ok"
                /\ Len(docs[1].links) = Len(links)
                /\ \A i \in DOMAIN links :
                      LET link == docs[1].links[i]
                          properties == findall(links[i], <<"Property">>)
                          titles == findall(links[i], <<"Title">>)
                      IN  /\ DOMAIN link =
                                 DOMAIN links[i].attrib
                                 \cup (IF properties # <<>> THEN {K_properties} ELSE {})
                                 \cup (IF titles # <<>> THEN {K_titles} ELSE {})
                          /\ \A k \in DOMAIN links[i].attrib :
                                 link[k] = PyStr(links[i].attrib[k])
                          /\ properties # <<>> =>
                                 link[K_properties] = PyDict(parse_properties(links[i]).ret)
                          /\ titles # <<>> =>
                                 /\ link[K_titles].t = "dict"
                                 /\ DOMAIN link[K_titles].d
                                        = {titles[j].text.s : j \in DOMAIN titles}
                /\ K_titles \notin DOMAIN raw_of(heap, docs[1])

-----------------------------------------------------------------------------
(* webfinger/objects/link.py: a link constructed directly *)

\* the properties arguments of WebFingerLink(): none, the empty mapping,
\* mappings of a URI to a string and to None, a key that is no URI, and a
\* string
DirectProperties ==
    { PyNone, PyDict(EmptyDict),
      PyDict([x \in {URI("http", "//b/ns/role")} |-> PyStr(<<"x">>)]),
      PyDict([x \in {URI("http", "//b/ns/role")} |-> PyNone]),
      PyDict([x \in {<<"role">>} |-> PyStr(<<"x">>)]),
      PyStr(<<"role">>) }

\* the titles arguments: none, a title with its language, a language that is
\* no string, and a list
DirectTitles ==
    { PyNone, PyDict([x \in {<<"Profile">>} |-> PyStr(<<"en">>)]),
      PyDict([x \in {<<"Profile">>} |-> PyInt(4)]), PyList(<<>>) }

\* the extension fields: none, a string, and a number
DirectKwargs ==
    LinkKwargs \cup {[x \in {<<"template">>} |-> PyInt(4)]}

\* the keyword arguments of the calls WebFingerLink(rel, type=, href=,
\* titles=, properties=, **kwargs)
LinkArgs ==
    { Update([k \in LinkParams |->
                 CASE k = K_rel -> c.rel
                   [] k = K_type -> c.type
                   [] k = K_href -> c.href
                   [] k = K_titles -> c.titles
                   [] k = K_properties -> c.properties], c.kwargs) :
        c \in [rel : {PyStr(ProfileURI)}, type : LinkTypes,
               href : LinkHrefs, titles : DirectTitles,
               properties : DirectProperties, kwargs : DirectKwargs] }

\* link = WebFingerLink(**args)
MakeLink(args) ==
    /\ LET r == WebFingerLink(args)
       IN  result' = [op |-> "WebFingerLink", status |-> r.status, args |-> args,
                      link |-> r.link]
    /\ UNCHANGED <<heap, docs, ncalls, clients, defaults, inflight>>

NextLink == \E args \in LinkArgs : MakeLink(args)

SpecLink == Init /\ [][NextLink]_vars

-----------------------------------------------------------------------------
(* C11 *)

\* C11: WebFingerLink() with a properties mapping whose keys are all
\* URI-shaped and whose values are all strings or None, its other arguments
\* being acceptable, succeeds and stores that mapping as the link's
\* properties.
C11_WellFormedPropertiesStored ==
    result.op = "WebFingerLink" =>
        LET args == result.args
            p == args[K_properties]
            others == [k \in DOMAIN args \ {K_properties} |-> args[k]]
        IN  ( /\ p.t = "dict"
              /\ \A k \in DOMAIN p.d : is_uri(k) /\ p.d[k].t \in {"str", "NoneType"}
              /\ WebFingerLink(others).status = "ok" )
            => /\ result.status = "ok"
               /\ result.link[K_properties] = p

-----------------------------------------------------------------------------
(* C12 *)

\* C12: WebFingerLink() fails with WebFingerJRDError if type is given and is
\* no string, if href is given and is no string or not URI-shaped, if titles
\* is given and is no mapping of strings to strings, or if properties is
\* given with a key that is not URI-shaped; the extension fields change
\* nothing of the outcome and are stored as given.
C12_LinkValidation ==
    result.op = "WebFingerLink" =>
        LET args == result.args
            type == args[K_type]
            href == args[K_href]
            titles == args[K_titles]
            properties == args[K_properties]
            refused ==
                \/ type # PyNone /\ type.t # "str"
                \/ href # PyNone /\ (href.t # "str" \/ ~is_uri(href.s))
                \/ titles # PyNone /\ ( \/ titles.t # "dict"
                                        \/ \E k \in DOMAIN titles.d : titles.d[k].t # "str" )
                \/ properties # PyNone /\ properties.t = "dict"
                                       /\ \E k \in DOMAIN properties.d : ~is_uri(k)
        IN  /\ refused => result.status = "WebFingerJRDError"
            /\ result.status =
                    WebFingerLink([k \in DOMAIN args \cap LinkParams |-> args[k]]).status
            /\ result.status = "ok" =>
                    \A k \in DOMAIN args \ LinkParams : result.link[k] = args[k]

\* a link refused for its href alone, although it has an extension field
C12_Witness ==
    /\ result.op = "WebFingerLink"
    /\ result.status = "WebFingerJRDError"
    /\ result.args[K_href] = PyStr(<<"invalid">>)
    /\ DOMAIN result.args \ LinkParams # {}
    /\ WebFingerLink([k \in DOMAIN result.args \ {K_href} |-> result.args[k]]).status = "ok"

-----------------------------------------------------------------------------
(* C13 *)

-----------------------------------------------------------------------------
(* C19 *)

\* C19: to_xml() fails with WebFingerJRDError exactly when some link has a
\* field that is neither a string nor a titles or properties mapping, and
\* otherwise (document properties or not) returns the XRD text, which
\* starts with the XRD element and its Subject.
C19_ToXmlSerialises ==
    result.op = "to_xml" =>
        LET self == docs[result.d]
            bad == \E i \in DOMAIN self.links : \E k \in DOMAIN self.links[i] :
                        LET v == self.links[i][k]
                        IN  /\ v.t # "str"
                            /\ ~(k \in {K_titles, K_properties} /\ v.t = "dict")
        IN  /\ result.status = "WebFingerJRDError" <=> bad
            /\ ~bad => /\ result.status = "ok"
                       /\ Len(result.value) >= 2
                       /\ result.value[1].tag = <<"XRD">>
                       /\ result.value[2].tag = <<"Subject">>

-----------------------------------------------------------------------------
(* webfinger/exceptions.py *)

\* the classes an exception class derives from, itself included
Bases(class) ==
    CASE class = "WebFingerHTTPError" ->
            {"WebFingerHTTPError", "WebFingerNetworkError", "WebFingerException"}
      [] class = "WebFingerNetworkError" -> {"WebFingerNetworkError", "WebFingerException"}
      [] class = "WebFingerContentError" -> {"WebFingerContentError", "WebFingerException"}
      [] class = "WebFingerJRDError" ->
            {"WebFingerJRDError", "WebFingerRDError", "WebFingerContentError",
             "WebFingerException"}
      [] OTHER -> {class}

-----------------------------------------------------------------------------
(* webfinger/client/__init__.py *)

\* WEBFINGER_TYPES, in the order of the dict: the type, its q value and its
\* parser
WEBFINGER_TYPES ==
    << [type |-> <<"application/jrd+json">>, q |-> <<"1">>, parser |-> "json"],
       [type |-> <<"application/json">>, q |-> <<"0.9">>, parser |-> "json"],
       [type |-> <<"application/xrd+xml">>, q |-> <<"0.5">>, parser |-> "xml"],
       [type |-> <<"application/xml">>, q |-> <<"0.4">>, parser |-> "xml"] >>

\* self.WEBFINGER_TYPES[content_type][1], "none" if content_type is not in
\* self.WEBFINGER_TYPES
parser_of(content_type) ==
    IF \E i \in DOMAIN WEBFINGER_TYPES : WEBFINGER_TYPES[i].type = content_type
    THEN WEBFINGER_TYPES[CHOOSE i \in DOMAIN WEBFINGER_TYPES :
                            WEBFINGER_TYPES[i].type = content_type].parser
    ELSE "none"

\* "https://{host}/.well-known/webfinger".format(host=host)
WEBFINGER_URL(host) == <<"https", ":", "//">> \o host \o <<"/.well-known/webfinger">>

\* "Python-Webfinger/{version}"
USER_AGENT == <<"Python-Webfinger/3.0.0.dev1">>

\* '; '.join("q={}, {}".format(v[0], k) for k, v in WEBFINGER_TYPES.items())
generate_accept_header ==
    Flatten([i \in DOMAIN WEBFINGER_TYPES |->
                (IF i = 1 THEN <<>> ELSE <<";", " ">>)
                \o <<"q=">> \o WEBFINGER_TYPES[i].q \o <<",", " ">>
                \o WEBFINGER_TYPES[i].type])

\* parse_host with a slip: the part after the first "@"
parse_host_first_at(resource) ==
    LET ats == {i \in DOMAIN resource : resource[i] = "@"}
    IN  IF ats = {} THEN resource
        ELSE SubSeq(resource, (CHOOSE i \in ats : \A j \in ats : i <= j) + 1, Len(resource))

\* parse_host(resource): resource.split("@")[-1]
parse_host(resource) ==
    LET ats == {i \in DOMAIN resource : resource[i] = "@"}
    IN  IF ats = {} THEN resource
        ELSE SubSeq(resource, (CHOOSE i \in ats : \A j \in ats : j <= i) + 1, Len(resource))

\* BaseWebFingerClient.parse_response(self, response, parser):
\* getattr(self.JRD_OBJECT, "from_" + parser)(response)
base_parse_response(response, parser) ==
    IF parser = "json" THEN from_json(<<>>, response) ELSE from_xml(<<>>, response)

-----------------------------------------------------------------------------
(* webfinger/client/requests.py and webfinger/client/aiohttp.py *)

K_resource == <<"resource">>

\* content_type.split(";", 1)[0]
split_first(content_type) ==
    LET semis == {i \in DOMAIN content_type : content_type[i] = ";"}
    IN  IF semis = {} THEN content_type
        ELSE SubSeq(content_type, 1, (CHOOSE i \in semis : \A j \in semis : i <= j) - 1)

\* str.strip(): white space is the atom " "
RECURSIVE strip(_)
strip(string) ==
    IF string = <<>> THEN string
    ELSE IF Head(string) = " " THEN strip(Tail(string))
    ELSE IF string[Len(string)] = " " THEN strip(SubSeq(string, 1, Len(string) - 1))
    ELSE string

\* response.raise_for_status(): raises for the statuses 400 to 599
raise_for_status(status) == status >= 400 /\ status < 600

\* WebFingerClient.parse_response(self, response) of client/requests.py and
\* of client/aiohttp.py.  The latter has no handler for the missing header,
\* and its json branch names WebFingerJRD, which the module does not import.
parse_response(kind, response) ==
    LET Raised(e) == [status |-> e, returned |-> "nothing", value |-> PyNone]
        Parsed(r) ==
            IF r.status = "ok"
            THEN [status |-> "ok", returned |-> "document", value |-> Fields(r.heap, r.self)]
            ELSE Raised(r.status)
    IN  IF response.content_type = PyNone
        THEN Raised(IF kind = "requests" THEN "WebFingerContentError" ELSE "KeyError")
        ELSE LET content_type == strip(split_first(response.content_type.s))
                 parser == parser_of(content_type)
             IN  IF parser = "none" THEN Raised("WebFingerContentError")
                 ELSE IF kind = "aiohttp" /\ parser = "json"
                 THEN \* response.json(), then WebFingerJRD(json)
                      IF loads(response.text).status # "ok" THEN Raised("ValueError")
                      ELSE Raised("NameError")
                 \* super().parse_response(response.text, parser)
                 ELSE Parsed(base_parse_response(response.text, parser))

\* the part of finger() up to the GET: [url, params, headers], params and
\* headers being the dict objects named by the arguments, after the
\* assignments
finger_request(resource, host, rel1, params, headers) ==
    LET host1 == IF ~Truthy(host) THEN parse_host(resource) ELSE host.s
        params1 == SetItem(params, K_resource, PyStr(resource))
        params2 == IF Truthy(rel1) THEN SetItem(params1, K_rel, rel1) ELSE params1
        headers1 == SetItem(SetItem(headers, <<"User-Agent">>, PyStr(USER_AGENT)),
                            <<"Accept">>, PyStr(generate_accept_header))
    IN  [url |-> WEBFINGER_URL(host1), params |-> params2, headers |-> headers1]

\* the part of finger() after the GET, for the outcome o of session.get():
\* an exception of the transport, or a response
finger_outcome(kind, raw, o) ==
    IF o.raised # "none"
    THEN [status |-> "WebFingerNetworkError", returned |-> "nothing", value |-> PyNone,
          cause |-> o.raised]
    ELSE IF raise_for_status(o.status)
    THEN [status |-> "WebFingerHTTPError", returned |-> "nothing", value |-> PyNone,
          cause |-> IF kind = "requests" THEN "HTTPError" ELSE "ClientResponseError"]
    ELSE IF raw
    THEN [status |-> "ok", returned |-> "text", value |-> o.text, cause |-> "none"]
    ELSE parse_response(kind, o) @@ [cause |-> "none"]

-----------------------------------------------------------------------------
(* The clients: inputs *)

\* the resources: an acct: URI, a name with two "@", and one with none
Resources ==
    { <<"acct", ":", "a", "@", "b">>, <<"a", "@", "b", "@", "c">>, <<"nohost">> }

\* the calls of finger(): a resource with each host argument (not given, a
\* host, the empty string), the first resource with one of rel, raw and
\* params (the caller's own empty dict), and a call with all of them;
\* params |-> PyNone is a call that passes no params
FingerCalls ==
    LET PlainCall(resource) ==
            [resource |-> resource, host |-> PyNone, rel |-> PyNone, raw |-> FALSE,
             params |-> PyNone]
        first == <<"acct", ":", "a", "@", "b">>
    IN  { [PlainCall(r) EXCEPT !.host = h] :
            r \in Resources, h \in {PyNone, PyStr(<<"example.org">>), PyStr(<<>>)} }
        \cup { [PlainCall(first) EXCEPT !.rel = PyStr(<<"profile">>)],
               [PlainCall(first) EXCEPT !.raw = TRUE],
               [PlainCall(first) EXCEPT !.params = PyDict(EmptyDict)],
               [resource |-> first, host |-> PyStr(<<"example.org">>),
                rel |-> PyStr(<<"profile">>), raw |-> TRUE, params |-> PyDict(EmptyDict)] }

\* an XRD text with a subject, an alias and a link
B_xml ==
    << XStart(<<"XRD">>, [k \in {K_xmlns} |-> XRD_NS]),
       XStart(<<"Subject">>, EmptyDict), XText(<<"acct", ":", "a", "@", "b">>),
       XEnd(<<"Subject">>),
       XStart(<<"Alias">>, EmptyDict), XText(URI("https", "//b/@a")), XEnd(<<"Alias">>),
       XStart(<<"Link">>, [k \in {K_rel, K_href} |->
                              IF k = K_rel THEN ProfileURI ELSE URI("https", "//b/@a")]),
       XEnd(<<"Link">>),
       XEnd(<<"XRD">>) >>

\* the outcomes of session.get(): an exception (requests.exceptions.SSLError,
\* ConnectionError, Timeout; aiohttp: the like), a 200 response of an
\* accepted type, with and without a parameter, with either body, a 200
\* response without a Content-Type or of another type with the JSON text of
\* J_full, a 300 response (which no client follows), and two error pages
Outcomes ==
    LET Response(status, content_type, text) ==
            [raised |-> "none", status |-> status, content_type |-> content_type,
             text |-> text]
        accepted == { PyStr(<<"application/jrd+json">>),
                      PyStr(<<"application/json", ";", " ", "charset=utf-8">>),
                      PyStr(<<"application/xrd+xml">>), PyStr(<<"application/xml">>) }
        others == { PyNone, PyStr(<<"text/plain">>),
                    PyStr(<<"text/html", " ", ";", "application/json">>) }
    IN  { [raised |-> e, status |-> 0, content_type |-> PyNone, text |-> <<>>] :
            e \in {"SSLError", "ConnectionError", "Timeout"} }
        \cup { Response(200, ct, text) : ct \in accepted, text \in {dumps(J_full), B_xml} }
        \cup { Response(200, ct, dumps(J_full)) : ct \in others }
        \cup { Response(300, PyStr(<<"application/jrd+json">>), dumps(J_full)),
               Response(404, PyStr(<<"text/plain">>), <<>>),
               Response(503, PyStr(<<"text/plain">>), <<>>) }

-----------------------------------------------------------------------------
(* The clients: the state machine.  Clients are constructed and finger() is *)
(* called on them, one call at a time; a call is in flight from its GET to  *)
(* the outcome of the GET.                                                  *)

ClientIds == 1..(MaxClients + 1)

\* the GETs issued so far, on all sessions
TotalGets ==
    LET RECURSIVE Sum(_)
        Sum(i) == IF i = 0 THEN 0
                  ELSE Sum(i - 1) + (IF clients[i].session = PyNone THEN 0
                                     ELSE clients[i].session.gets)
    IN  Sum(Len(clients))

\* WebFingerClient(session=...) of either module; a session is [open, gets],
\* gets counting the calls of session.get() that sent a request, and held
\* counts the sessions the client has had
NewClient(kind, supplied) ==
    /\ inflight = PyNone
    /\ Len(clients) < MaxClients
    /\ clients' = Append(clients,
                         [kind |-> kind,
                          session |-> IF supplied THEN [open |-> TRUE, gets |-> 0] ELSE PyNone,
                          held |-> IF supplied THEN 1 ELSE 0])
    /\ result' = [op |-> "WebFingerClient", status |-> "ok"]
    /\ UNCHANGED <<heap, docs, ncalls, defaults, inflight>>

\* get with a slip: the request is sent again
get_twice(self) ==
    LET s == IF self.session = PyNone THEN [open |-> TRUE, gets |-> 0] ELSE self.session
    IN  [self |-> [self EXCEPT !.session = [s EXCEPT !.gets = @ + 2],
                               !.held = IF self.session = PyNone THEN @ + 1 ELSE @],
         sent |-> TRUE]

\* WebFingerClient.get(self, url, params, headers), up to session.get():
\* [self, sent].  The session is created on first use; a requests session
\* that was closed opens its connections anew, an aiohttp session that was
\* closed raises RuntimeError and sends nothing
get(self) ==
    LET s == IF self.session = PyNone THEN [open |-> TRUE, gets |-> 0] ELSE self.session
        held == IF self.session = PyNone THEN self.held + 1 ELSE self.held
    IN  IF self.kind = "aiohttp" /\ ~s.open
        THEN [self |-> self, sent |-> FALSE]
        ELSE [self |-> [self EXCEPT !.session = [s EXCEPT !.gets = @ + 1], !.held = held],
              sent |-> TRUE]

\* finger(...) on client c, up to the GET that get() issues
FingerCall(c, call) ==
    /\ c \in DOMAIN clients
    /\ inflight = PyNone
    /\ TotalGets < MaxGets
    /\ LET kind == clients[c].kind
           params == IF call.params = PyNone THEN defaults[kind].params ELSE call.params.d
           req == finger_request(call.resource, call.host, call.rel, params,
                                 defaults[kind].headers)
           got == get(clients[c])
       IN  /\ defaults' = [defaults EXCEPT ![kind] =
                              [params |-> IF call.params = PyNone THEN req.params
                                          ELSE @.params,
                               headers |-> req.headers]]
           /\ clients' = [clients EXCEPT ![c] = got.self]
           /\ IF got.sent
              THEN /\ inflight' = [kind |-> kind, call |-> call, get |-> req]
                   /\ result' = [op |-> "finger", status |-> "pending", c |-> c]
              \* 'except Exception as e: raise WebFingerNetworkError(...) from e'
              ELSE /\ inflight' = PyNone
                   /\ result' = [op |-> "finger", status |-> "WebFingerNetworkError",
                                 returned |-> "nothing", value |-> PyNone,
                                 cause |-> "RuntimeError", kind |-> kind, call |-> call,
                                 get |-> req,
                                 response |-> [raised |-> "RuntimeError", status |-> 0,
                                               content_type |-> PyNone, text |-> <<>>]]
    /\ UNCHANGED <<heap, docs, ncalls>>

\* the rest of the finger() call in flight, session.get() having the outcome o
FingerReturn(o) ==
    /\ inflight # PyNone
    /\ LET r == finger_outcome(inflight.kind, inflight.call.raw, o)
       IN  result' = [op |-> "finger", status |-> r.status, returned |-> r.returned,
                      value |-> r.value, cause |-> r.cause, kind |-> inflight.kind,
                      call |-> inflight.call, get |-> inflight.get, response |-> o]
    /\ inflight' = PyNone
    /\ UNCHANGED <<heap, docs, ncalls, clients, defaults>>

\* close() on client c: 'if self.session: self.session.close()'; self.session
\* keeps naming the closed session
Close(c) ==
    /\ c \in DOMAIN clients
    /\ inflight = PyNone
    /\ clients' = [clients EXCEPT ![c].session =
                      IF @ = PyNone THEN @ ELSE [@ EXCEPT !.open = FALSE]]
    /\ result' = [op |-> "close", status |-> "ok", c |-> c]
    /\ UNCHANGED <<heap, docs, ncalls, defaults, inflight>>

NextClient ==
    \/ \E kind \in ClientKinds, supplied \in BOOLEAN : NewClient(kind, supplied)
    \/ \E c \in ClientIds, call \in FingerCalls : FingerCall(c, call)
    \/ \E o \in Outcomes : FingerReturn(o)
    \/ \E c \in ClientIds : Close(c)

SpecClient == Init /\ [][NextClient]_vars

-----------------------------------------------------------------------------
(* What a caller can observe of a finger() call *)

\* a finger() call has ended, with a response of the server that get()
\* returned
GotResponse ==
    /\ result.op = "finger"
    /\ result.status # "pending"
    /\ result.response.raised = "none"
    /\ ~raise_for_status(result.response.status)

\* the declared content type without its parameters
BaseType(content_type) == strip(split_first(content_type.s))

\* the four accepted types, by the constructor they stand for
AcceptedTypes ==
    [json |-> {<<"application/jrd+json">>, <<"application/json">>},
     xml |-> {<<"application/xrd+xml">>, <<"application/xml">>}]

-----------------------------------------------------------------------------
(* C14 *)

\* C14: a finger() call whose response declares a content type that, without
\* its parameters, is none of the four accepted types fails with
\* WebFingerContentError and returns neither a document nor the body,
\* whatever raw is.
C14_UnacceptedTypeRejected ==
    ( /\ GotResponse
      /\ result.response.content_type # PyNone
      /\ BaseType(result.response.content_type) \notin AcceptedTypes.json \cup AcceptedTypes.xml )
    => /\ "WebFingerContentError" \in Bases(result.status)
       /\ result.returned = "nothing"

-----------------------------------------------------------------------------
(* C15 *)

\* C15: the GET of a finger() call that passes no params has a rel parameter
\* exactly when the call passes a rel, and its resource parameter is the
\* resource of the call.
C15_ParamsOfThisCall ==
    (inflight # PyNone /\ inflight.call.params = PyNone)
    => /\ K_rel \in DOMAIN inflight.get.params <=> Truthy(inflight.call.rel)
       /\ K_rel \in DOMAIN inflight.get.params =>
                inflight.get.params[K_rel] = inflight.call.rel
       /\ inflight.get.params[K_resource] = PyStr(inflight.call.resource)

-----------------------------------------------------------------------------
(* C16 *)

\* C16: a finger() call whose GET gets a status outside 200..299 fails with
\* WebFingerHTTPError, one whose GET raises fails with a
\* WebFingerNetworkError that is no WebFingerHTTPError, both have the
\* exception of the transport as their cause, and neither returns anything.
C16_TransportFailure ==
    (result.op = "finger" /\ result.status # "pending") =>
        LET o == result.response
        IN  /\ (o.raised = "none" /\ ~(o.status >= 200 /\ o.status < 300)) =>
                    /\ result.status = "WebFingerHTTPError"
                    /\ result.cause # "none"
                    /\ result.returned = "nothing"
            /\ o.raised # "none" =>
                    /\ "WebFingerNetworkError" \in Bases(result.status)
                    /\ "WebFingerHTTPError" \notin Bases(result.status)
                    /\ result.cause = o.raised
                    /\ result.returned = "nothing"

-----------------------------------------------------------------------------
(* C17 *)

\* C17: in both clients, a finger() call without raw whose response has an
\* accepted content type and a body its constructor accepts returns the
\* document from_json makes of the body for the two JSON types and the
\* document from_xml makes of it for the two XML types.
C17_ParsedByContentType ==
    (GotResponse /\ ~result.call.raw /\ result.response.content_type # PyNone) =>
        LET type == BaseType(result.response.content_type)
            text == result.response.text
        IN  /\ (type \in AcceptedTypes.json /\ from_json(<<>>, text).status = "ok") =>
                    /\ result.status = "ok"
                    /\ result.returned = "document"
                    /\ result.value = Fields(from_json(<<>>, text).heap, from_json(<<>>, text).self)
            /\ (type \in AcceptedTypes.xml /\ from_xml(<<>>, text).status = "ok") =>
                    /\ result.status = "ok"
                    /\ result.returned = "document"
                    /\ result.value = Fields(from_xml(<<>>, text).heap, from_xml(<<>>, text).self)

-----------------------------------------------------------------------------
(* C18 *)

\* C18: in both clients, a finger() call (raw not asked for) whose response
\* has no Content-Type header fails with WebFingerContentError.
C18_MissingContentType ==
    (GotResponse /\ ~result.call.raw /\ result.response.content_type = PyNone)
    => "WebFingerContentError" \in Bases(result.status)

-----------------------------------------------------------------------------
(* C20 *)

\* C20: the URL of the GET of a finger() call is
\* https://{host}/.well-known/webfinger, host being the host argument when
\* one is given (a host that is not empty) and else what follows the last
\* "@" of the resource, the whole resource when it has no "@".
C20_HostDerivation ==
    inflight # PyNone =>
        LET resource == inflight.call.resource
            host == inflight.call.host
            Url(h) == <<"https", ":", "//">> \o h \o <<"/.well-known/webfinger">>
            \* h is what follows the last "@" of resource, or resource if it
            \* has none
            AfterLastAt(h) ==
                /\ \A i \in DOMAIN h : h[i] # "@"
                /\ \/ h = resource
                   \/ \E i \in DOMAIN resource :
                        resource[i] = "@" /\ h = SubSeq(resource, i + 1, Len(resource))
        IN  IF Truthy(host) THEN inflight.get.url = Url(host.s)
            ELSE \E i \in 1..(Len(resource) + 1) :
                    LET derived == SubSeq(resource, i, Len(resource))
                    IN  /\ AfterLastAt(derived)
                        /\ inflight.get.url = Url(derived)

\* a call without a host whose resource has two "@"
C20_Witness ==
    /\ inflight # PyNone
    /\ inflight.call.host = PyNone
    /\ Cardinality({i \in DOMAIN inflight.call.resource :
                        inflight.call.resource[i] = "@"}) = 2
    /\ inflight.get.url = WEBFINGER_URL(<<"c">>)

-----------------------------------------------------------------------------
(* C26 *)

\* C26: a finger() call sends at most one GET: the step that starts the call
\* is the only one that sends a request, it sends one, and no step sends
\* another while the call is in flight or when it ends, whether it ends with
\* a result or with a network, HTTP or content error; no two calls are in
\* flight together.
C26_OneGetPerFinger ==
    [][/\ TotalGets' \in {TotalGets, TotalGets + 1}
       /\ TotalGets' # TotalGets =>
            /\ inflight = PyNone /\ inflight' # PyNone
            /\ result'.op = "finger" /\ result'.status = "pending"
       /\ inflight # PyNone =>
            /\ TotalGets' = TotalGets
            /\ inflight' = PyNone
            /\ result'.op = "finger" /\ result'.status # "pending"]_vars

\* two calls have been made, the second has failed with a network error, and
\* two GETs have been sent
C26_Witness ==
    /\ result.op = "finger" /\ result.status = "WebFingerNetworkError"
    /\ result.response.raised = "ConnectionError"
    /\ inflight = PyNone
    /\ TotalGets = 2

-----------------------------------------------------------------------------
(* C27 *)

\* C27: a client has at most one session in its life, created with its first
\* request if none was supplied; close() releases the session if there is
\* one; and no request is sent on a session that has been released.
C27_SessionLifecycle ==
    [][\A c \in DOMAIN clients :
        LET before == clients[c]
            after == clients'[c]
        IN  /\ after.held <= 1
            /\ (before.session = PyNone /\ after.session # PyNone) =>
                    after.session.open /\ after.session.gets = 1
            /\ (result'.op = "close" /\ result'.c = c /\ before.session # PyNone) =>
                    ~after.session.open
            /\ (before.session # PyNone /\ ~before.session.open) =>
                    after.session.gets = before.session.gets]_vars

-----------------------------------------------------------------------------
(* Two documents: a second document is constructed from the raw document of *)
(* the first, as tests.py does with WebFingerJRD(self.builder.jrd), and     *)
(* either is mutated.                                                       *)

\* WebFingerJRD(docs[d].jrd): the argument is the dict object that document
\* d holds
NewFromRaw(d) ==
    /\ d \in DOMAIN docs
    /\ Len(docs) = 1
    /\ LET r == WebFingerJRD(heap, docs[d].jrd)
       IN  /\ Constructed(r)
           /\ result' = [op |-> "WebFingerJRD", status |-> r.status,
                         jrd |-> Deep(heap, docs[d].jrd)]

NextTwo ==
    \/ New(J_full)
    \/ \E subject \in Subjects : Build(subject)
    \/ \E d \in DocIds : NewFromRaw(d)
    \/ \E d \in DocIds, alias \in Aliases : AddAlias(d, alias)
    \/ \E d \in DocIds, uri \in PropertyURIs, value \in PropertyValues :
            AddProperty(d, uri, value)
    \/ \E d \in DocIds : AddLink(d, TestLinkCall)
    \/ \E d \in DocIds, c \in MiscCalls : AddMisc(d, c)

SpecTwo == Init /\ [][NextTwo]_vars

-----------------------------------------------------------------------------
(* C28 *)

\* C28: an add_alias, add_property, add_link or add_misc call on one document
\* leaves every other document as it was: its raw document, its aliases,
\* properties and links, and what its to_json() returns.
C28_NoSharedState ==
    [][result'.op \in Mutators =>
        \A e \in DOMAIN docs \ {result'.d} :
            /\ Fields(heap', docs'[e]) = Fields(heap, docs[e])
            /\ to_json(heap', docs'[e]) = to_json(heap, docs[e])]_vars

====
